---- MODULE Spec2Model ----
(***************************************************************************)
(* Verification model of the panoramic tree pipeline of                    *)
(* ml/src/segmentation_enhanced.py (and the voting / deduplication code it *)
(* shares with ml/src/segmentation.py), and of the two request handlers of *)
(* ml/src/app.py that call it.                                             *)
(*                                                                         *)
(* Numbers.  Python floats are modelled by exact integer / rational        *)
(* arithmetic: solidity and circularity are carried in hundredths, an IoU  *)
(* is a pair <<numerator, denominator>>, thresholds are in hundredths.     *)
(***************************************************************************)
EXTENDS Integers, Sequences, FiniteSets, TLC

VARIABLES
    \* ---- remove_duplicate_trees ----
    dedup_regions,        \* argument tree_regions
    overlap_threshold,    \* argument overlap_threshold, in hundredths
    unique,               \* the returned list
    dedup_pc,             \* "idle" | "call" | "returned"
    \* ---- detect_vegetation_mask: the three indicator masks and the votes ----
    hsv_mask,             \* per pixel 0 / 255
    exg_mask,             \* per pixel 0 / 255
    ndvi_mask,            \* per pixel 0 / 255
    veg_mask_enhanced,    \* veg_mask of segmentation_enhanced.py before cleanup, <<>> before the vote
    veg_mask_base,        \* vegetation_mask of segmentation.py before cleanup, <<>> before the vote
    \* ---- scale round trip of one coordinate ----
    rt_longest,           \* longest edge of the panorama
    rt_v,                 \* the full-resolution coordinate
    rt_down,              \* int(v * scale), -1 before it is computed
    rt_up,                \* int(down * inv), -1 before it is computed
    rt_pc,                \* "idle" | "down" | "up" | "done"
    \* ---- process_panoramic_images: arguments and what the libraries answer ----
    image_paths,          \* the files: [decodes, w, h] per path
    classification_model, \* None or "model"
    transform,            \* None or "transform"
    class_names,          \* the label list; <<>> when omitted
    stitch_outcomes,      \* what Stitcher.stitch answers in PANORAMA and in SCANS mode
    stitched_size,        \* <<w, h>> of the image a successful stitch returns
    ws_candidates,        \* watershed labels > 1 with their contour measurements
    ct_candidates,        \* external contours of the vegetation mask with measurements
    transform_raises,     \* region indices (0-based) at which transform(pil_img) raises
    model_raises_at,      \* the forward pass (1, 2, ..) that raises; 0: none does
    fp_low,               \* float products v * scale of integral value truncate one lower
    fp_low_area,          \* the float product img_area * 0.0003 does, when of integral value
    \* ---- process_panoramic_images: program state ----
    pc,                   \* the statement the invocation is at
    heap,                 \* image buffers: buffer id -> content
    paths_to_use,         \* stitch_panorama: indices of the sampled paths
    max_width,            \* stitch_panorama: the width cap in force
    images,               \* stitch_panorama: decoded (and resized) images
    stitch_log,           \* stitch_panorama: <<mode, outcome>> of every attempt made
    panorama,             \* buffer id or None
    scale,                \* <<num, den>>: 1.0 is <<1, 1>>
    seg_img,              \* buffer id or None
    preprocessed,         \* buffer id or None
    veg_mask,             \* [w, h] of the vegetation mask
    tree_regions,         \* list of region records
    idx,                  \* loop index of the crop loop
    crop_tensors,         \* transformed crops, each named by its crop rectangle
    crop_indices,         \* indices into tree_regions that have valid crops
    batch_start,          \* start of the next batch
    forward_calls,        \* sizes of the batches handed to classification_model
    all_preds,            \* predicted class indices, in crop order
    all_confs,            \* top-1 probabilities (hundredths), in crop order
    disease_counts,       \* label -> count
    annotated,            \* buffer id or None
    tree_data,            \* the returned tree list
    raised,               \* the exception that left the invocation, or None
    \* ---- the reading-order sort applied to two detection orders of one region set ----
    detected_a,           \* the regions in one detection order
    detected_b,           \* the same regions in another detection order
    numbered_a,           \* sorted(detected_a, key=...), <<>> before the sort
    numbered_b,           \* sorted(detected_b, key=...), <<>> before the sort
    order_pc,             \* "idle" | "sort" | "sorted"
    \* ---- app.py process_drone_images: one request ----
    up_has_field,         \* "files" in request.files
    up_files,             \* request.files.getlist("files"): [named, save] per upload
    up_pipeline_raises,   \* the try body of lines 253-295 raises
    up_i,                 \* the upload the save loop is at
    up_image_paths,       \* image_paths: the uploads saved, named by their position
    up_disk,              \* the upload files that exist in UPLOAD_DIR
    up_exc,               \* an exception is propagating
    up_status,            \* the HTTP status returned, 0 before the return
    up_pc,                \* "idle" | "validate" | "save" | "pipeline" | "finally" |
                          \* "except" | "returned"
    \* ---- app.py process_drone_video: one request ----
    vd_has_file,          \* "file" in request.files
    vd_named,             \* file.filename != ""
    vd_fault,             \* the statement group that raises in this request, or "none"
    vd_fault_at,          \* for vd_fault = "extract": the loop pass that raises, 0: before the loop
    vd_opens,             \* cap.isOpened()
    vd_total_frames,      \* int(cap.get(CAP_PROP_FRAME_COUNT))
    vd_readable,          \* the loop passes (1-based) in which cap.read() gives a frame
    video_path,           \* None or the path of the saved video
    frame_paths,          \* saved_idx of every frame written
    vd_k,                 \* the pass the extraction loop is at
    vd_video_exists,      \* the video file exists in UPLOAD_DIR
    vd_frame_dir_exists,  \* frame_dir exists
    vd_frame_files,       \* the frame files in frame_dir, by saved_idx
    vd_removals,          \* os.remove(video_path) calls made
    vd_status,            \* the HTTP status of the return statement reached, 0 before
    vd_pc,                \* "idle" | "validate" | "save" | "open" | "extract" | "pipeline" |
                          \* "respond" | "except" | "finally" | "returned"
    \* ---- concurrent invocations of process_panoramic_images, lines 523-591 ----
    shared_class_names,   \* inference.class_names, the one list every invocation is given
    shared_transform,     \* inference._base_transform
    shared_model,         \* inference.model: [ref, training, stats]
    loaded,               \* the three as they were when the process had loaded them
    inv_panorama,         \* per invocation: [w, h] of its panorama
    inv_raises,           \* per invocation: region indices at which transform raises
    inv_regions,          \* per invocation: its tree_regions
    inv_idx,              \* per invocation: index of the crop loop
    inv_crop_tensors,     \* per invocation: crop_tensors
    inv_crop_indices,     \* per invocation: crop_indices
    inv_batch_start,      \* per invocation: batch_start
    inv_all_preds,        \* per invocation: all_preds
    inv_all_confs,        \* per invocation: all_confs
    inv_map_i,            \* per invocation: i of the loop over enumerate(crop_indices)
    inv_disease_counts,   \* per invocation: disease_counts
    inv_pc,               \* per invocation: "idle" | "classify" | "crop" | "forward" |
                          \* "map" | "done"
    \* ---- stitch_panorama: the sampling of the paths, lines 373-384 ----
    sm_n,                 \* len(image_paths)
    sm_indices,           \* the 0-based indices of paths_to_use, <<>> before the call
    sm_pc                 \* "idle" | "call" | "sampled"

dedupVars == <<dedup_regions, overlap_threshold, unique, dedup_pc>>
voteVars == <<hsv_mask, exg_mask, ndvi_mask, veg_mask_enhanced, veg_mask_base>>
remapVars == <<rt_longest, rt_v, rt_down, rt_up, rt_pc>>

envVars == <<image_paths, classification_model, transform, class_names, stitch_outcomes,
             stitched_size, ws_candidates, ct_candidates, transform_raises,
             model_raises_at, fp_low, fp_low_area>>
stitchVars == <<paths_to_use, max_width, images, stitch_log>>
imgVars == <<heap, panorama, scale, seg_img, preprocessed, veg_mask, annotated>>
clsVars == <<idx, crop_tensors, crop_indices, batch_start, forward_calls, all_preds,
             all_confs, disease_counts>>
pipeVars == <<envVars, pc, stitchVars, imgVars, tree_regions, clsVars, tree_data, raised>>

orderVars == <<detected_a, detected_b, numbered_a, numbered_b, order_pc>>
uploadVars == <<up_has_field, up_files, up_pipeline_raises, up_i, up_image_paths, up_disk,
                up_exc, up_status, up_pc>>
videoVars == <<vd_has_file, vd_named, vd_fault, vd_fault_at, vd_opens, vd_total_frames,
               vd_readable, video_path, frame_paths, vd_k, vd_video_exists,
               vd_frame_dir_exists, vd_frame_files, vd_removals, vd_status, vd_pc>>
sharedVars == <<shared_class_names, shared_transform, shared_model>>
concVars == <<sharedVars, loaded, inv_panorama, inv_raises, inv_regions, inv_idx,
              inv_crop_tensors, inv_crop_indices, inv_batch_start, inv_all_preds,
              inv_all_confs, inv_map_i, inv_disease_counts, inv_pc>>
sampleVars == <<sm_n, sm_indices, sm_pc>>
extraVars == <<sampleVars>>
restVars == <<orderVars, uploadVars, videoVars, concVars, extraVars>>

vars == <<dedupVars, voteVars, remapVars, pipeVars, restVars>>

None == "None"

\* The variables of a function that is not being exercised keep these values.
DedupIdle ==
    /\ dedup_regions = <<>>
    /\ overlap_threshold = 0
    /\ unique = <<>>
    /\ dedup_pc = "idle"

VoteIdle ==
    /\ hsv_mask = <<>> /\ exg_mask = <<>> /\ ndvi_mask = <<>>
    /\ veg_mask_enhanced = <<>> /\ veg_mask_base = <<>>

RoundTripIdle ==
    /\ rt_longest = 0 /\ rt_v = 0 /\ rt_down = -1 /\ rt_up = -1 /\ rt_pc = "idle"

OrderIdle ==
    /\ detected_a = <<>> /\ detected_b = <<>> /\ numbered_a = <<>> /\ numbered_b = <<>>
    /\ order_pc = "idle"

UploadIdle ==
    /\ up_has_field = FALSE /\ up_files = <<>> /\ up_pipeline_raises = FALSE
    /\ up_i = 0 /\ up_image_paths = <<>> /\ up_disk = {} /\ up_exc = FALSE
    /\ up_status = 0 /\ up_pc = "idle"

VideoIdle ==
    /\ vd_has_file = FALSE /\ vd_named = FALSE /\ vd_fault = "none" /\ vd_fault_at = 0
    /\ vd_opens = FALSE /\ vd_total_frames = 0 /\ vd_readable = {}
    /\ video_path = None /\ frame_paths = <<>> /\ vd_k = 0
    /\ vd_video_exists = FALSE /\ vd_frame_dir_exists = FALSE /\ vd_frame_files = {}
    /\ vd_removals = 0 /\ vd_status = 0 /\ vd_pc = "idle"

ConcIdle ==
    /\ shared_class_names = <<>> /\ shared_transform = None /\ shared_model = None
    /\ loaded = <<>>
    /\ inv_panorama = <<>> /\ inv_raises = <<>> /\ inv_regions = <<>> /\ inv_idx = <<>>
    /\ inv_crop_tensors = <<>> /\ inv_crop_indices = <<>> /\ inv_batch_start = <<>>
    /\ inv_all_preds = <<>> /\ inv_all_confs = <<>> /\ inv_map_i = <<>>
    /\ inv_disease_counts = <<>> /\ inv_pc = <<>>

SampleIdle == sm_n = 0 /\ sm_indices = <<>> /\ sm_pc = "idle"

ExtraIdle == SampleIdle

RestIdle == OrderIdle /\ UploadIdle /\ VideoIdle /\ ConcIdle /\ ExtraIdle

NoMask == [w |-> 0, h |-> 0]

\* The program state of an invocation that has not started.
PipeFresh ==
    /\ heap = <<>>
    /\ paths_to_use = <<>> /\ max_width = 0 /\ images = <<>> /\ stitch_log = <<>>
    /\ panorama = None /\ scale = <<1, 1>> /\ seg_img = None /\ preprocessed = None
    /\ veg_mask = NoMask /\ tree_regions = <<>>
    /\ idx = 0 /\ crop_tensors = <<>> /\ crop_indices = <<>> /\ batch_start = 0
    /\ forward_calls = <<>> /\ all_preds = <<>> /\ all_confs = <<>>
    /\ disease_counts = <<>>
    /\ annotated = None /\ tree_data = <<>> /\ raised = None

PipeIdle ==
    /\ image_paths = <<>> /\ classification_model = None /\ transform = None
    /\ class_names = <<>> /\ stitch_outcomes = <<>> /\ stitched_size = <<0, 0>>
    /\ ws_candidates = <<>> /\ ct_candidates = <<>> /\ transform_raises = {}
    /\ model_raises_at = 0 /\ fp_low = FALSE /\ fp_low_area = FALSE
    /\ pc = "idle"
    /\ PipeFresh

(***************************************************************************)
(* Generic helpers                                                         *)
(***************************************************************************)
Max2(a, b) == IF a >= b THEN a ELSE b
Min2(a, b) == IF a <= b THEN a ELSE b

Range(s) == {s[i] : i \in 1..Len(s)}

\* All sequences over S of length 0..n.
SeqsUpTo(S, n) == UNION {[1..k -> S] : k \in 0..n}

\* Number of positions of s holding e.
Occurrences(s, e) == Cardinality({i \in 1..Len(s) : s[i] = e})

\* Lexicographic "strictly smaller" on two-component integer keys.
KeyLess(a, b) == a[1] < b[1] \/ (a[1] = b[1] /\ a[2] < b[2])

\* Python's sorted(): a stable sort. Items are records with a field key = <<k1, k2>>.
\* An item's place is the number of items with a smaller key, plus the number of
\* items with an equal key that precede it in the input.
StablePlace(keys, i) ==
    1 + Cardinality({j \in 1..Len(keys) :
                        \/ KeyLess(keys[j], keys[i])
                        \/ (keys[j] = keys[i] /\ j < i)})

sorted(keyed) ==
    LET n == Len(keyed)
        keys == SubSeq([i \in 1..n |-> keyed[i].key], 1, n)
        place == SubSeq([i \in 1..n |-> StablePlace(keys, i)], 1, n)
    IN  [r \in 1..n |-> keyed[CHOOSE i \in 1..n : place[i] = r]]

(***************************************************************************)
(* remove_duplicate_trees  (segmentation_enhanced.py 265-290,              *)
(*                          segmentation.py 275-302: same algorithm)       *)
(***************************************************************************)
\* 1e-5 as a rational: 1 / EpsDen
EpsDen == 100000

\* iou(b1, b2) for boxes <<x, y, w, h>>: the pair <<inter, union>> stands for the
\* float inter / (union + 1e-5); 0.0 is <<0, 1>>.
iou(b1, b2) ==
    LET ix1 == Max2(b1[1], b2[1])
        iy1 == Max2(b1[2], b2[2])
        ix2 == Min2(b1[1] + b1[3], b2[1] + b2[3])
        iy2 == Min2(b1[2] + b1[4], b2[2] + b2[4])
        inter == (ix2 - ix1) * (iy2 - iy1)
    IN  IF ix2 <= ix1 \/ iy2 <= iy1
        THEN <<0, 1>>
        ELSE <<inter, b1[3] * b1[4] + b2[3] * b2[4] - inter>>

\* iou(...) > overlap_threshold, the threshold t given in hundredths (|t| < EpsDen):
\* inter / (union + 1/EpsDen) > t / 100  <=>  (100 * inter - t * union) * EpsDen > t,
\* and only the sign of the integer 100 * inter - t * union matters for that.
IouExceeds(b1, b2, t) ==
    LET v == iou(b1, b2)
        d == 100 * v[1] - t * v[2]
        sign == IF d > 0 THEN 1 ELSE IF d < 0 THEN -1 ELSE 0
    IN  sign * EpsDen > t

\* quality(r) scaled by 100000:
\* solidity*0.5 + circularity*0.3 + min(area/10000, 1.0)*0.2
quality(r) == 500 * r.solidity + 300 * r.circularity + 2 * Min2(r.area, 10000)

\* The sort without reverse=True: worst quality first.
SortByQualityAsc(regions) ==
    LET keyed == [i \in 1..Len(regions) |->
                    [key |-> <<quality(regions[i]), 0>>, item |-> regions[i]]]
        s == sorted(keyed)
    IN  [i \in 1..Len(s) |-> s[i].item]

\* sorted(tree_regions, key=quality, reverse=True): stable, best quality first.
SortByQualityDesc(regions) ==
    LET keyed == [i \in 1..Len(regions) |->
                    [key |-> <<0 - quality(regions[i]), 0>>, item |-> regions[i]]]
        s == sorted(keyed)
    IN  [i \in 1..Len(s) |-> s[i].item]

\* One iteration of the greedy loop: keep region unless it overlaps a kept one.
KeepLastOnly(kept, region, t) ==
    IF kept # <<>> /\ IouExceeds(region.bbox, kept[Len(kept)].bbox, t)
    THEN kept
    ELSE Append(kept, region)

Keep(kept, region, t) ==
    IF \E k \in 1..Len(kept) : IouExceeds(region.bbox, kept[k].bbox, t)
    THEN kept
    ELSE Append(kept, region)

\* The loop over the sorted regions lo..hi, entered with the regions kept so far; the
\* passes lo..mid are complete before the pass mid + 1 starts.
RECURSIVE GreedyKeep(_, _, _, _, _)
GreedyKeep(kept, s, lo, hi, t) ==
    IF lo > hi THEN kept
    ELSE IF lo = hi THEN Keep(kept, s[lo], t)
    ELSE LET mid == (lo + hi) \div 2
             first == GreedyKeep(kept, s, lo, mid, t)
         IN  CASE Len(first) >= 0 -> GreedyKeep(first, s, mid + 1, hi, t)

\* A variant that seeds the kept list with the best region and then visits it again.
RemoveDuplicatesSeeded(regions, t) ==
    IF regions = <<>> THEN regions
    ELSE LET s == SortByQualityDesc(regions) IN GreedyKeep(<<s[1]>>, s, 1, Len(s), t)

remove_duplicate_trees(regions, t) ==
    IF regions = <<>> THEN regions
    ELSE LET s == SortByQualityDesc(regions) IN GreedyKeep(<<>>, s, 1, Len(s), t)

\* ---- inputs ----
MaxRegions == 3
MaxOffset == 2

\* Candidate regions: boxes two pixels wide, one or two high, shifted along x,
\* with two shape-quality levels.
RegionUniverse ==
    {[bbox |-> <<x, 0, 2, h>>, solidity |-> s, circularity |-> 50,
      area |-> 2 * h * 1000] :
        x \in 0..MaxOffset, h \in 1..2, s \in {40, 80}}

\* Thresholds in hundredths: the pipeline's 0.35, the default 0.4, and the
\* boundary values of the candidate boxes' IoUs.
Thresholds == {-10, 0, 20, 35, 40, 50, 100}

(***************************************************************************)
(* detect_vegetation_mask: the majority vote                               *)
(*   segmentation_enhanced.py 87-90 and segmentation.py 81-83              *)
(***************************************************************************)
\* Pixels of the modelled image
NumPixels == 3

MaskValues == {0, 255}
Masks == [1..NumPixels -> MaskValues]

\* (mask > 0).astype(np.uint8)
AsBit(m) == IF m > 0 THEN 1 ELSE 0

\* segmentation_enhanced.py: vote = sum of the three bits as uint8, veg = (vote >= 2) * 255
VoteEnhancedAllThree(h, e, n) ==
    IF (AsBit(h) + AsBit(e) + AsBit(n)) % 256 >= 3 THEN 255 ELSE 0

VoteEnhanced(h, e, n) ==
    IF (AsBit(h) + AsBit(e) + AsBit(n)) % 256 >= 2 THEN 255 ELSE 0

\* segmentation.py: combined = int32 sum of the 0/255 masks, veg = (combined >= 2*255) * 255
VoteBase(h, e, n) ==
    IF h + e + n >= 2 * 255 THEN 255 ELSE 0

VoteInit ==
    /\ DedupIdle /\ RoundTripIdle /\ PipeIdle /\ RestIdle
    /\ hsv_mask \in Masks /\ exg_mask \in Masks /\ ndvi_mask \in Masks
    /\ veg_mask_enhanced = <<>> /\ veg_mask_base = <<>>

\* detect_vegetation_mask of segmentation_enhanced.py, up to the vote
DetectVegetationEnhanced ==
    /\ hsv_mask # <<>>
    /\ veg_mask_enhanced = <<>>
    /\ veg_mask_enhanced' =
          [p \in 1..Len(hsv_mask) |-> VoteEnhanced(hsv_mask[p], exg_mask[p], ndvi_mask[p])]
    /\ UNCHANGED <<hsv_mask, exg_mask, ndvi_mask, veg_mask_base, dedupVars, remapVars, pipeVars, restVars>>

\* detect_vegetation_mask of segmentation.py, up to the vote
DetectVegetationBase ==
    /\ hsv_mask # <<>>
    /\ veg_mask_base = <<>>
    /\ veg_mask_base' =
          [p \in 1..Len(hsv_mask) |-> VoteBase(hsv_mask[p], exg_mask[p], ndvi_mask[p])]
    /\ UNCHANGED <<hsv_mask, exg_mask, ndvi_mask, veg_mask_enhanced, dedupVars, remapVars, pipeVars, restVars>>

VoteNext == DetectVegetationEnhanced \/ DetectVegetationBase

SpecVote == VoteInit /\ [][VoteNext]_vars

\* The three indicator values of pixel p in each of the six orders.
Permutations3(a, b, c) ==
    {<<a, b, c>>, <<a, c, b>>, <<b, a, c>>, <<b, c, a>>, <<c, a, b>>, <<c, b, a>>}

\* C5: before cleanup a pixel is set iff at least 2 of the 3 indicator masks are set,
\* whatever the order of the indicators, and the two modules' votes agree.
C5_MajorityVote ==
    /\ veg_mask_enhanced # <<>> =>
          \A p \in 1..NumPixels :
              LET set == Cardinality({k \in 1..3 :
                            <<hsv_mask[p], exg_mask[p], ndvi_mask[p]>>[k] = 255})
              IN  /\ (veg_mask_enhanced[p] = 255) <=> (set >= 2)
                  /\ veg_mask_enhanced[p] \in MaskValues
                  /\ \A q \in Permutations3(hsv_mask[p], exg_mask[p], ndvi_mask[p]) :
                        VoteEnhanced(q[1], q[2], q[3]) = veg_mask_enhanced[p]
    /\ (veg_mask_enhanced # <<>> /\ veg_mask_base # <<>>) =>
          veg_mask_enhanced = veg_mask_base

\* C5 witness: both votes taken on an image with a pixel where exactly two indicators
\* agree and a pixel where exactly one is set.
C5_Witness ==
    /\ veg_mask_enhanced # <<>> /\ veg_mask_base # <<>>
    /\ \E p, q \in 1..NumPixels :
          /\ hsv_mask[p] + exg_mask[p] + ndvi_mask[p] = 2 * 255
          /\ hsv_mask[q] + exg_mask[q] + ndvi_mask[q] = 255
          /\ veg_mask_enhanced[p] = 255 /\ veg_mask_enhanced[q] = 0

(***************************************************************************)
(* Scale round trip of one coordinate                                      *)
(*   process_panoramic_images 468-476 (down) and 508-514 (up)              *)
(***************************************************************************)
SEG_MAX_EDGE == 3000

\* Longest edges just above the limit, up to MaxEdgeExcess pixels above it, and
\* typical camera frame widths.
MaxEdgeExcess == 12
LongestEdges == (SEG_MAX_EDGE + 1 .. SEG_MAX_EDGE + MaxEdgeExcess) \cup {4000, 5472}

\* int(v * f) for the float f = num / den (or its reciprocal taken in floats):
\* the float product of an exactly integral result may fall just below the integer,
\* so the truncation is the exact floor or, then, one less.
TruncMul(v, num, den) ==
    LET q == (v * num) \div den
    IN  IF (v * num) % den = 0 /\ q >= 1
        THEN {q, q - 1}
        ELSE {q}

\* scale = SEG_MAX_EDGE / longest; int(v * scale)
ScaleDown(v, longest) == TruncMul(v, SEG_MAX_EDGE, longest)

\* inv = 1.0 / scale; int(v * inv)
ScaleUpByScale(v, longest) == TruncMul(v, SEG_MAX_EDGE, longest)

ScaleUp(v, longest) == TruncMul(v, longest, SEG_MAX_EDGE)

RoundTripInit ==
    /\ DedupIdle /\ VoteIdle /\ PipeIdle /\ RestIdle
    /\ rt_longest \in LongestEdges
    /\ rt_v \in 0..rt_longest
    /\ rt_down = -1 /\ rt_up = -1
    /\ rt_pc = "down"

RoundTripDown ==
    /\ rt_pc = "down"
    /\ rt_longest > SEG_MAX_EDGE
    /\ rt_down' \in ScaleDown(rt_v, rt_longest)
    /\ rt_pc' = "up"
    /\ UNCHANGED <<rt_longest, rt_v, rt_up, dedupVars, voteVars, pipeVars, restVars>>

RoundTripUp ==
    /\ rt_pc = "up"
    /\ rt_up' \in ScaleUp(rt_down, rt_longest)
    /\ rt_pc' = "done"
    /\ UNCHANGED <<rt_longest, rt_v, rt_down, dedupVars, voteVars, pipeVars, restVars>>

RoundTripNext == RoundTripDown \/ RoundTripUp

SpecRoundTrip == RoundTripInit /\ [][RoundTripNext]_vars

\* C7: for 0 < s = 3000/longest < 1, v scaled down and up again with int() truncation
\* never exceeds v and falls short of it by less than 1/s + 1.
C7_RoundTrip ==
    rt_pc = "done" =>
        /\ rt_up <= rt_v
        /\ SEG_MAX_EDGE * (rt_v - rt_up) < rt_longest + SEG_MAX_EDGE

\* C7 witness: a coordinate the round trip does not reproduce exactly.
C7_Witness ==
    /\ rt_pc = "done"
    /\ rt_longest = 5472
    /\ rt_down > 0
    /\ rt_v - rt_up = 2

DedupInit ==
    /\ VoteIdle /\ RoundTripIdle /\ PipeIdle /\ RestIdle
    /\ dedup_regions \in SeqsUpTo(RegionUniverse, MaxRegions)
    /\ overlap_threshold \in Thresholds
    /\ unique = <<>>
    /\ dedup_pc = "call"

DedupCall ==
    /\ dedup_pc = "call"
    /\ unique' = remove_duplicate_trees(dedup_regions, overlap_threshold)
    /\ dedup_pc' = "returned"
    /\ UNCHANGED <<dedup_regions, overlap_threshold, voteVars, remapVars, pipeVars, restVars>>

DedupNext == DedupCall

SpecDedup == DedupInit /\ [][DedupNext]_vars

\* C1: any two distinct returned regions have IoU <= threshold, the IoU being the
\* one the function's iou helper computes on the (x, y, w, h) boxes.
C1_KeptPairwiseIoU ==
    dedup_pc = "returned" =>
        \A i, j \in 1..Len(unique) :
            i # j =>
                LET v == iou(unique[i].bbox, unique[j].bbox)
                IN  v[1] * EpsDen * 100 <= overlap_threshold * (v[2] * EpsDen + 1)

\* C1 witness: an input with an overlapping pair, deduplicated to two or more regions.
C1_Witness ==
    /\ dedup_pc = "returned"
    /\ Len(unique) >= 2
    /\ Len(unique) < Len(dedup_regions)
    /\ overlap_threshold = 35

\* C2: the output holds only input regions, none more often than the input does,
\* so it is never longer than the input; the empty input gives the empty output.
C2_SubMultiset ==
    dedup_pc = "returned" =>
        /\ \A i \in 1..Len(unique) :
              /\ unique[i] \in Range(dedup_regions)
              /\ Occurrences(unique, unique[i]) <= Occurrences(dedup_regions, unique[i])
        /\ Len(unique) <= Len(dedup_regions)
        /\ (dedup_regions = <<>> => unique = <<>>)

\* C2 witness: a three-region input holding the same region twice, reduced to fewer.
C2_Witness ==
    /\ dedup_pc = "returned"
    /\ Len(dedup_regions) = 3
    /\ \E i, j \in 1..3 : i # j /\ dedup_regions[i] = dedup_regions[j]
    /\ Len(unique) \in 1..2

(***************************************************************************)
(* process_panoramic_images  (segmentation_enhanced.py 423-617)            *)
(* with stitch_panorama (363-420) and annotate_trees_enhanced (620-665)    *)
(***************************************************************************)
nonPipeVars == <<dedupVars, voteVars, remapVars, restVars>>

\* The product rounded up to the next integer instead of truncated.
TruncUp(v, num, den) == ((v * num) + den - 1) \div den

\* int(v * f), f the float num / den; see TruncMul. One outcome per invocation.
Trunc(v, num, den) ==
    LET q == (v * num) \div den
    IN  IF fp_low /\ (v * num) % den = 0 /\ q >= 1 /\ num # den THEN q - 1 ELSE q

\* ---- image buffers ----
\* cv2.imread(path): the decoded image, or None when the file does not decode.
Decoded(i) ==
    [kind |-> "file", src |-> i, w |-> image_paths[i].w, h |-> image_paths[i].h,
     drawn |-> <<>>]

\* A new buffer b holding content c.
Alloc(b, c) == [x \in DOMAIN heap \cup {b} |-> IF x = b THEN c ELSE heap[x]]

\* ---- stitch_panorama ----
MAX_STITCH_IMAGES == 25
DefaultMaxWidth == 4000
ReducedMaxWidth == 2000
ManyImages == 15

StitchModes == <<"PANORAMA", "SCANS">>
StitchResults == {"OK", "ERR_NEED_MORE_IMGS", "cv2.error", "Exception"}

\* step = len(image_paths) / MAX_STITCH_IMAGES is a double, and the double product
\* i * step of an integral i * n / 25 may lie just below that integer. Up to 409
\* paths it does so for n = 205, i = 15 alone: 15 * (205 / 25) = 122.99999999999999.
StepProductLow == {<<205, 15>>}

\* int(i * step) for i in range(MAX_STITCH_IMAGES), 0-based
SampleIndex(i, n) ==
    LET q == (i * n) \div MAX_STITCH_IMAGES
    IN  IF <<n, i>> \in StepProductLow THEN q - 1 ELSE q

\* paths_to_use = image_paths[:MAX_STITCH_IMAGES]
SampledIndicesFirst(n) ==
    IF n > MAX_STITCH_IMAGES
    THEN [i \in 1..MAX_STITCH_IMAGES |-> i]
    ELSE [i \in 1..n |-> i]

\* paths_to_use: all paths, or MAX_STITCH_IMAGES of them sampled at int(i * step);
\* the paths are named by their 1-based position in image_paths
SampledIndices(n) ==
    IF n > MAX_STITCH_IMAGES
    THEN [i \in 1..MAX_STITCH_IMAGES |-> SampleIndex(i - 1, n) + 1]
    ELSE [i \in 1..n |-> i]

WidthCap(nPaths, cap) == IF nPaths > ManyImages THEN Min2(cap, ReducedMaxWidth) ELSE cap

\* The image appended for a decoded path: resized when wider than the cap.
Loaded(i, cap) ==
    LET img == Decoded(i)
    IN  IF img.w > cap
        THEN [img EXCEPT !.kind = "resized",
                         !.w = Trunc(img.w, cap, img.w),
                         !.h = Trunc(img.h, cap, img.w)]
        ELSE img

RECURSIVE LoadAll(_, _, _)
LoadAll(acc, rest, cap) ==
    IF rest = <<>> THEN acc
    ELSE LoadAll(IF image_paths[Head(rest)].decodes
                 THEN Append(acc, Loaded(Head(rest), cap)) ELSE acc,
                 Tail(rest), cap)

\* lines 451-453 and 458-459: two or more paths go to the stitcher, one is read directly
Start ==
    /\ pc = "start"
    /\ IF Len(image_paths) >= 2
       THEN /\ pc' = "stitch_load"
            /\ UNCHANGED <<heap, panorama>>
       ELSE /\ pc' = "check"
            /\ IF image_paths[1].decodes
               THEN heap' = Alloc("imread", Decoded(1)) /\ panorama' = "imread"
               ELSE UNCHANGED <<heap, panorama>>
    /\ UNCHANGED <<envVars, stitchVars, scale, seg_img, preprocessed, veg_mask, annotated,
                   tree_regions, clsVars, tree_data, raised, nonPipeVars>>

\* stitch_panorama lines 373-404: sample, cap the width, read and resize
StitchLoad ==
    /\ pc = "stitch_load"
    /\ LET use == SampledIndices(Len(image_paths))
           cap == WidthCap(Len(use), DefaultMaxWidth)
           imgs == LoadAll(<<>>, use, cap)
       IN  /\ paths_to_use' = use
           /\ max_width' = cap
           /\ images' = imgs
           /\ pc' = IF Len(image_paths) < 2 \/ Len(imgs) < 2
                    THEN "stitch_none" ELSE "stitch_try"
    /\ UNCHANGED <<envVars, stitch_log, imgVars, tree_regions, clsVars, tree_data, raised,
                   nonPipeVars>>

\* The mode the for loop of lines 406-418 is at.
NextMode == Len(stitch_log) + 1

\* stitch_panorama lines 406-418: one pass of the loop over the two modes
StitchTry ==
    /\ pc = "stitch_try"
    /\ LET mode == NextMode
           outcome == stitch_outcomes[mode]
       IN  /\ stitch_log' = Append(stitch_log, <<StitchModes[mode], outcome>>)
           /\ IF outcome = "OK"
              THEN /\ heap' = Alloc("stitched",
                                    [kind |-> "stitched", src |-> 0,
                                     w |-> stitched_size[1], h |-> stitched_size[2],
                                     drawn |-> <<>>])
                   /\ panorama' = "stitched"
                   /\ pc' = "check"
              ELSE /\ UNCHANGED <<heap, panorama>>
                   /\ pc' = IF mode < Len(StitchModes) THEN "stitch_try" ELSE "stitch_none"
    /\ UNCHANGED <<envVars, paths_to_use, max_width, images, scale, seg_img, preprocessed,
                   veg_mask, annotated, tree_regions, clsVars, tree_data, raised,
                   nonPipeVars>>

\* stitch_panorama returned None; lines 454-457: fall back to the first image
StitchFallback ==
    /\ pc = "stitch_none"
    /\ IF image_paths[1].decodes
       THEN heap' = Alloc("imread", Decoded(1)) /\ panorama' = "imread"
       ELSE UNCHANGED <<heap, panorama>>
    /\ pc' = "check"
    /\ UNCHANGED <<envVars, stitchVars, scale, seg_img, preprocessed, veg_mask, annotated,
                   tree_regions, clsVars, tree_data, raised, nonPipeVars>>

\* lines 461-462
CheckLoaded ==
    /\ pc = "check"
    /\ IF panorama = None
       THEN pc' = "raised" /\ raised' = "ValueError: Could not load any images"
       ELSE pc' = "downscale" /\ UNCHANGED raised
    /\ UNCHANGED <<envVars, stitchVars, imgVars, tree_regions, clsVars, tree_data,
                   nonPipeVars>>

\* lines 464-480: segmentation image, downscaled when the longest edge exceeds the limit
Downscale ==
    /\ pc = "downscale"
    /\ LET orig_w == heap[panorama].w
           orig_h == heap[panorama].h
           longest == Max2(orig_h, orig_w)
       IN  IF longest > SEG_MAX_EDGE
           THEN /\ scale' = <<SEG_MAX_EDGE, longest>>
                /\ heap' = Alloc("resized",
                                 [heap[panorama] EXCEPT
                                     !.kind = "resized",
                                     !.w = Trunc(orig_w, SEG_MAX_EDGE, longest),
                                     !.h = Trunc(orig_h, SEG_MAX_EDGE, longest)])
                /\ seg_img' = "resized"
           ELSE /\ scale' = <<1, 1>>
                /\ seg_img' = panorama
                /\ UNCHANGED heap
    /\ pc' = "preprocess"
    /\ UNCHANGED <<envVars, stitchVars, panorama, preprocessed, veg_mask, annotated,
                   tree_regions, clsVars, tree_data, raised, nonPipeVars>>

\* line 482, preprocess_for_trees (43-54): filters into new arrays, the input is only read
Preprocess ==
    /\ pc = "preprocess"
    /\ heap' = Alloc("preprocessed", [heap[seg_img] EXCEPT !.kind = "enhanced"])
    /\ preprocessed' = "preprocessed"
    /\ pc' = "vegetation"
    /\ UNCHANGED <<envVars, stitchVars, panorama, scale, seg_img, veg_mask, annotated,
                   tree_regions, clsVars, tree_data, raised, nonPipeVars>>

\* line 484, detect_vegetation_mask (57-98): a mask of the size of its input
DetectVegetation ==
    /\ pc = "vegetation"
    /\ veg_mask' = [w |-> heap[preprocessed].w, h |-> heap[preprocessed].h]
    /\ pc' = "watershed"
    /\ UNCHANGED <<envVars, stitchVars, heap, panorama, scale, seg_img, preprocessed,
                   annotated, tree_regions, clsVars, tree_data, raised, nonPipeVars>>

\* ---- segmentation ----
MinAreaFloor == 200
MinSolidity == 30
SubBlobMinArea == 50
SubBlobMinRadius == 20
SubBlobMinSide == 10
SubBlobSolidity == 70
SubBlobCircularity == 50
SubBlobLabelBase == 100
FallbackBelow == 5
PipelineOverlapThreshold == 35
RowBucket == 100

\* region.get('confidence') of a region that was never classified
NoConfidence == -1

\* max(200, int(img_area * 0.0003)) and int(img_area * 0.08); the arguments are None.
\* The double 0.0003 lies below 3/10000, so a product that is integral in exact
\* arithmetic may truncate one lower (2000 x 1500 gives 899); 0.08 lies above 8/100.
MinTreeArea(img) ==
    LET q == (img.w * img.h * 3) \div 10000
    IN  Max2(MinAreaFloor,
             IF fp_low_area /\ (img.w * img.h * 3) % 10000 = 0 /\ q >= 1 THEN q - 1 ELSE q)
MaxTreeArea(img) == (img.w * img.h * 8) \div 100

\* float(bw) / (bh + 1e-5) as <<num, den>>
AspectRatio(bw, bh) == <<bw * EpsDen, bh * EpsDen + 1>>
\* ar < 0.25 or ar > 4.0
AspectOutOfBand(ar) == 4 * ar[1] < ar[2] \/ ar[1] > 4 * ar[2]

Region(label, bbox, centroid, area, solidity, circularity, contour, mask) ==
    [label |-> label, bbox |-> bbox, centroid |-> centroid, area |-> area,
     solidity |-> solidity, circularity |-> circularity,
     aspect_ratio |-> AspectRatio(bbox[3], bbox[4]),
     contour |-> contour, mask |-> mask,
     disease |-> None, confidence |-> NoConfidence]

\* The tests without the one on solidity.
WatershedAcceptsAnySolidity(c, img) ==
    /\ ~(c.area < MinTreeArea(img) \/ c.area > MaxTreeArea(img))
    /\ ~AspectOutOfBand(AspectRatio(c.bbox[3], c.bbox[4]))

\* segment_individual_trees_watershed, lines 142-172: the tests on one labelled area
WatershedAccepts(c, img) ==
    /\ ~(c.area < MinTreeArea(img) \/ c.area > MaxTreeArea(img))
    /\ ~AspectOutOfBand(AspectRatio(c.bbox[3], c.bbox[4]))
    /\ ~(c.solidity < MinSolidity)

\* lines 132-174: the accepted areas, in label order, each with contour and mask
segment_individual_trees_watershed(img, cands) ==
    LET accepted == SelectSeq(cands, LAMBDA c : WatershedAccepts(c, img))
    IN  [i \in 1..Len(accepted) |->
            Region(accepted[i].label, accepted[i].bbox, accepted[i].centroid,
                   accepted[i].area, accepted[i].solidity, accepted[i].circularity,
                   "contour", "mask")]

\* int(sqrt(n)) for an integer n >= 0
ISqrt(n) == CHOOSE r \in 0..n : r * r <= n /\ (r + 1) * (r + 1) > n

\* max(int(np.sqrt(area / num_labels / np.pi)), 20), pi taken as 355/113
EstRadius(area, num_labels) ==
    Max2(ISqrt((area * 113) \div (num_labels * 355)), SubBlobMinRadius)

\* lines 214-232: the sub-regions of one large blob, appended to acc
RECURSIVE SplitBlob(_, _, _, _, _)
SplitBlob(acc, blobs, area, num_labels, img) ==
    IF blobs = <<>> THEN acc
    ELSE LET b == Head(blobs)
             est_r == EstRadius(area, num_labels)
             rx1 == Max2(0, b.cx - est_r)
             ry1 == Max2(0, b.cy - est_r)
             rx2 == Min2(img.w, b.cx + est_r)
             ry2 == Min2(img.h, b.cy + est_r)
             rw == rx2 - rx1
             rh == ry2 - ry1
         IN  SplitBlob(
                 IF b.stat_area < SubBlobMinArea \/ rw < SubBlobMinSide \/ rh < SubBlobMinSide
                 THEN acc
                 ELSE Append(acc, Region(Len(acc) + SubBlobLabelBase, <<rx1, ry1, rw, rh>>,
                                         <<b.cx, b.cy>>, rw * rh, SubBlobSolidity,
                                         SubBlobCircularity, None, None)),
                 Tail(blobs), area, num_labels, img)

\* segment_individual_trees_contour, lines 195-260: one external contour
ContourStep(acc, c, img) ==
    LET num_labels == Len(c.blobs) + 1
    IN  IF c.area < MinTreeArea(img) THEN acc
        ELSE IF 2 * c.area > MaxTreeArea(img) /\ num_labels > 2
             THEN SplitBlob(acc, c.blobs, c.area, num_labels, img)
        ELSE IF c.area > MaxTreeArea(img)
                \/ AspectOutOfBand(AspectRatio(c.bbox[3], c.bbox[4]))
             THEN acc
        ELSE IF c.solidity < MinSolidity THEN acc
        ELSE Append(acc, Region(Len(acc), c.bbox, c.centroid, c.area, c.solidity,
                                c.circularity, "contour", None))

RECURSIVE ContourRegions(_, _, _)
ContourRegions(acc, cands, img) ==
    IF cands = <<>> THEN acc
    ELSE ContourRegions(ContourStep(acc, Head(cands), img), Tail(cands), img)

segment_individual_trees_contour(img, cands) == ContourRegions(<<>>, cands, img)

\* lines 489-493
Watershed ==
    /\ pc = "watershed"
    /\ tree_regions' = segment_individual_trees_watershed(heap[preprocessed], ws_candidates)
    /\ pc' = "contour"
    /\ UNCHANGED <<envVars, stitchVars, imgVars, clsVars, tree_data, raised, nonPipeVars>>

\* A test that asks for the contour pass only when the watershed pass found nothing.
NeedsContourWhenEmpty(regions) == regions = <<>>

\* line 496 (and 759): if len(tree_regions) < 5
NeedsContour(regions) == Len(regions) < FallbackBelow

\* lines 495-501: the contour pass supplements a watershed pass of fewer than 5 regions
ContourFallback ==
    /\ pc = "contour"
    /\ IF NeedsContour(tree_regions)
       THEN tree_regions' = tree_regions \o
                segment_individual_trees_contour(heap[preprocessed], ct_candidates)
       ELSE UNCHANGED tree_regions
    /\ pc' = "dedup"
    /\ UNCHANGED <<envVars, stitchVars, imgVars, clsVars, tree_data, raised, nonPipeVars>>

\* line 503
\* A pipeline that hands the pooled regions on as they are.
DedupSkipped ==
    /\ pc = "dedup"
    /\ pc' = "remap"
    /\ UNCHANGED <<tree_regions, envVars, stitchVars, imgVars, clsVars, tree_data, raised,
                   nonPipeVars>>

\* line 503: remove_duplicate_trees(tree_regions, overlap_threshold=0.35)
Dedup ==
    /\ pc = "dedup"
    /\ tree_regions' = remove_duplicate_trees(tree_regions, PipelineOverlapThreshold)
    /\ pc' = "remap"
    /\ UNCHANGED <<envVars, stitchVars, imgVars, clsVars, tree_data, raised, nonPipeVars>>

\* A mapping that scales the bbox and the area and leaves the centroid.
RemapRegionBboxOnly(r, sc) ==
    [r EXCEPT !.bbox = <<Trunc(r.bbox[1], sc[2], sc[1]), Trunc(r.bbox[2], sc[2], sc[1]),
                         Trunc(r.bbox[3], sc[2], sc[1]), Trunc(r.bbox[4], sc[2], sc[1])>>,
              !.area = (((r.area * sc[2]) \div sc[1]) * sc[2]) \div sc[1]]

\* A mapping that also recomputes the aspect ratio from the mapped bbox.
RemapRegionWithAspect(r, sc) ==
    [r EXCEPT !.bbox = <<Trunc(r.bbox[1], sc[2], sc[1]), Trunc(r.bbox[2], sc[2], sc[1]),
                         Trunc(r.bbox[3], sc[2], sc[1]), Trunc(r.bbox[4], sc[2], sc[1])>>,
              !.centroid = <<Trunc(r.centroid[1], sc[2], sc[1]),
                             Trunc(r.centroid[2], sc[2], sc[1])>>,
              !.area = (((r.area * sc[2]) \div sc[1]) * sc[2]) \div sc[1],
              !.aspect_ratio = AspectRatio(Trunc(r.bbox[3], sc[2], sc[1]),
                                           Trunc(r.bbox[4], sc[2], sc[1]))]

\* lines 510-515: one region mapped back with inv = 1.0 / scale
RemapRegion(r, sc) ==
    [r EXCEPT !.bbox = <<Trunc(r.bbox[1], sc[2], sc[1]), Trunc(r.bbox[2], sc[2], sc[1]),
                         Trunc(r.bbox[3], sc[2], sc[1]), Trunc(r.bbox[4], sc[2], sc[1])>>,
              !.centroid = <<Trunc(r.centroid[1], sc[2], sc[1]),
                             Trunc(r.centroid[2], sc[2], sc[1])>>,
              !.area = (((r.area * sc[2]) \div sc[1]) * sc[2]) \div sc[1]]

\* lines 507-517
Remap ==
    /\ pc = "remap"
    /\ IF scale[1] < scale[2]
       THEN /\ tree_regions' = [i \in 1..Len(tree_regions) |->
                                   RemapRegion(tree_regions[i], scale)]
            /\ veg_mask' = [w |-> heap[panorama].w, h |-> heap[panorama].h]
       ELSE UNCHANGED <<tree_regions, veg_mask>>
    /\ pc' = "sort"
    /\ UNCHANGED <<envVars, stitchVars, heap, panorama, scale, seg_img, preprocessed,
                   annotated, clsVars, tree_data, raised, nonPipeVars>>

\* key=lambda r: (r['centroid'][1] // 100, r['centroid'][0])
ReadingKeySwapped(r) == <<r.centroid[1], r.centroid[2] \div RowBucket>>

\* A key of the row alone.
ReadingKeyRowOnly(r) == <<r.centroid[2] \div RowBucket, 0>>

ReadingKey(r) == <<r.centroid[2] \div RowBucket, r.centroid[1]>>

\* sorted(tree_regions, key=...), lines 520-521
SortReadingOrder(regions) ==
    LET keyed == [i \in 1..Len(regions) |->
                    [key |-> ReadingKey(regions[i]), item |-> regions[i]]]
        s == sorted(keyed)
    IN  [i \in 1..Len(s) |-> s[i].item]

Sort ==
    /\ pc = "sort"
    /\ tree_regions' = SortReadingOrder(tree_regions)
    /\ pc' = "classify"
    /\ UNCHANGED <<envVars, stitchVars, imgVars, clsVars, tree_data, raised, nonPipeVars>>

\* ---- classification, lines 523-591 ----
BATCH_SIZE == 64
\* classes the injected model scores
NumOutputs == 4

\* if classification_model and transform and class_names
ClassifierSuppliedIgnoringModel == transform # None /\ class_names # <<>>

ClassifierSupplied ==
    classification_model # None /\ transform # None /\ class_names # <<>>

\* lines 538-543: the padded crop rectangle <<x1, y1, x2, y2>>, clipped to the panorama
CropRect(bbox, img) ==
    LET pad == Min2(bbox[3], bbox[4]) \div 10
    IN  <<Max2(0, bbox[1] - pad), Max2(0, bbox[2] - pad),
          Min2(img.w, bbox[1] + bbox[3] + pad), Min2(img.h, bbox[2] + bbox[4] + pad)>>

\* tree_crop.size == 0
CropEmpty(rect) == rect[3] <= rect[1] \/ rect[4] <= rect[2]

\* What the injected classifier answers for one crop: the arg-max class index and its
\* softmax probability in hundredths. It depends on the crop alone.
ClassifierOutput(rect) ==
    [pred |-> ((rect[1] \div 10) + 3 * (rect[2] \div 10) + rect[3]) % NumOutputs,
     conf |-> 34 + ((rect[1] + rect[2] + rect[4]) % 67)]

\* class_names[pred_idx] if pred_idx < len(class_names) else 'Unknown'
LabelOf(pred_idx) ==
    IF pred_idx < Len(class_names) THEN class_names[pred_idx + 1] ELSE "Unknown"

\* An invocation that returns at once when there is no crop to classify.
AfterCropLoopReturning(tensors) == IF tensors # <<>> THEN "forward" ELSE "return"

\* Where the invocation goes after the crop loop: line 559, if crop_tensors
AfterCropLoop(tensors) == IF tensors # <<>> THEN "forward" ELSE "annotate"

\* lines 524-534
ClassifyStart ==
    /\ pc = "classify"
    /\ disease_counts' = <<>>
    /\ IF ClassifierSupplied
       THEN pc' = IF tree_regions = <<>> THEN AfterCropLoop(<<>>) ELSE "crop"
       ELSE pc' = "annotate"
    /\ idx' = 0 /\ crop_tensors' = <<>> /\ crop_indices' = <<>>
    /\ UNCHANGED <<envVars, stitchVars, imgVars, tree_regions, batch_start, forward_calls,
                   all_preds, all_confs, tree_data, raised, nonPipeVars>>

\* lines 536-556: one pass of the crop loop
PrepareCrop ==
    /\ pc = "crop"
    /\ idx < Len(tree_regions)
    /\ LET region == tree_regions[idx + 1]
           rect == CropRect(region.bbox, heap[panorama])
           valid == ~CropEmpty(rect) /\ idx \notin transform_raises
           tensors == IF valid THEN Append(crop_tensors, rect) ELSE crop_tensors
       IN  /\ crop_tensors' = tensors
           /\ crop_indices' = IF valid THEN Append(crop_indices, idx) ELSE crop_indices
           /\ tree_regions' =
                 IF valid THEN tree_regions
                 ELSE [tree_regions EXCEPT ![idx + 1].disease = "Unknown",
                                           ![idx + 1].confidence = 0]
           /\ pc' = IF idx + 1 < Len(tree_regions) THEN "crop" ELSE AfterCropLoop(tensors)
    /\ idx' = idx + 1
    /\ UNCHANGED <<envVars, stitchVars, imgVars, batch_start, forward_calls, all_preds,
                   all_confs, disease_counts, tree_data, raised, nonPipeVars>>

\* crop_tensors[batch_start:batch_start + BATCH_SIZE]
BatchOfOverlapping(tensors, start) ==
    SubSeq(tensors, start + 1, Min2(start + BATCH_SIZE + 1, Len(tensors)))

\* A batch of the one crop at start: one forward pass per tree.
BatchOfOne(tensors, start) == SubSeq(tensors, start + 1, start + 1)

BatchOf(tensors, start) ==
    SubSeq(tensors, start + 1, Min2(start + BATCH_SIZE, Len(tensors)))

\* lines 563-579: one forward pass
ForwardBatch ==
    /\ pc = "forward"
    /\ LET batch == BatchOf(crop_tensors, batch_start)
       IN  /\ forward_calls' = Append(forward_calls, Len(batch))
           /\ IF model_raises_at = Len(forward_calls) + 1
              THEN /\ pc' = "raised"
                   /\ raised' = "classification_model raised"
                   /\ UNCHANGED <<all_preds, all_confs, batch_start>>
              ELSE /\ all_preds' = all_preds \o
                          [k \in 1..Len(batch) |-> ClassifierOutput(batch[k]).pred]
                   /\ all_confs' = all_confs \o
                          [k \in 1..Len(batch) |-> ClassifierOutput(batch[k]).conf]
                   /\ batch_start' = batch_start + BATCH_SIZE
                   /\ pc' = IF batch_start + BATCH_SIZE < Len(crop_tensors)
                            THEN "forward" ELSE "map"
                   /\ UNCHANGED raised
    /\ UNCHANGED <<envVars, stitchVars, imgVars, tree_regions, idx, crop_tensors,
                   crop_indices, disease_counts, tree_data, nonPipeVars>>

\* disease_counts[dis] = disease_counts.get(dis, 0) + 1
Counted(counts, dis) ==
    [d \in DOMAIN counts \cup {dis} |->
        IF d = dis THEN (IF dis \in DOMAIN counts THEN counts[dis] ELSE 0) + 1
        ELSE counts[d]]

\* lines 583-588: one pass of the loop over enumerate(crop_indices)
MapOne(i, st) ==
    LET region_idx == crop_indices[i]
        dis == LabelOf(all_preds[i])
    IN  [regions |-> [st.regions EXCEPT ![region_idx + 1].disease = dis,
                                        ![region_idx + 1].confidence = all_confs[i]],
         counts |-> Counted(st.counts, dis)]

\* lines 582-588: the passes lo..hi of the loop
RECURSIVE MapBack(_, _, _)
MapBack(lo, hi, st) ==
    IF lo > hi THEN st
    ELSE IF lo = hi THEN MapOne(lo, st)
    ELSE LET mid == (lo + hi) \div 2
             first == MapBack(lo, mid, st)
         IN  CASE Len(first.regions) >= 0 -> MapBack(mid + 1, hi, first)

MapPredictions ==
    /\ pc = "map"
    /\ LET m == MapBack(1, Len(crop_indices),
                        [regions |-> tree_regions, counts |-> disease_counts])
       IN  tree_regions' = m.regions /\ disease_counts' = m.counts
    /\ pc' = "annotate"
    /\ UNCHANGED <<envVars, stitchVars, imgVars, idx, crop_tensors, crop_indices,
                   batch_start, forward_calls, all_preds, all_confs, tree_data, raised,
                   nonPipeVars>>

\* ---- annotate_trees_enhanced, lines 620-665 ----
\* annotated = image.copy(): the buffer the circles and numbers are drawn into
AnnotationBufferInPlace(image) == image

AnnotationBuffer(image) == "annotated"

\* tree_num = idx + 1
TreeNumZeroBased(i) == i

TreeNum(i) == i + 1

\* The circle and the number drawn for the region at index i (0-based)
Mark(i, region) == [at |-> region.centroid, text |-> TreeNum(i)]

\* lines 656-663: the entry appended to tree_data
TreeEntry(i, region) ==
    [id |-> <<"Tree_", TreeNum(i)>>,
     number |-> TreeNum(i),
     bbox |-> <<region.bbox[1], region.bbox[2],
                region.bbox[1] + region.bbox[3], region.bbox[2] + region.bbox[4]>>,
     centroid |-> region.centroid,
     disease |-> region.disease,
     confidence |-> region.confidence]

\* line 594
Annotate ==
    /\ pc = "annotate"
    /\ LET b == AnnotationBuffer(panorama)
           copy == Alloc(b, heap[panorama])
       IN  /\ heap' = [copy EXCEPT ![b].drawn =
                          copy[b].drawn \o
                          [i \in 1..Len(tree_regions) |-> Mark(i - 1, tree_regions[i])]]
           /\ annotated' = b
    /\ tree_data' = [i \in 1..Len(tree_regions) |-> TreeEntry(i - 1, tree_regions[i])]
    /\ pc' = "return"
    /\ UNCHANGED <<envVars, stitchVars, panorama, scale, seg_img, preprocessed, veg_mask,
                   tree_regions, clsVars, raised, nonPipeVars>>

\* lines 609-617: the result refers to panorama, annotated, tree_data, veg_mask,
\* tree_regions and disease_counts as they are now
Return ==
    /\ pc = "return"
    /\ pc' = "returned"
    /\ UNCHANGED <<envVars, stitchVars, imgVars, tree_regions, clsVars, tree_data, raised,
                   nonPipeVars>>

\* 'num_trees': len(tree_data)
num_trees == Len(tree_data)

PipeNext ==
    \/ Start \/ StitchLoad \/ StitchTry \/ StitchFallback \/ CheckLoaded
    \/ Downscale \/ Preprocess \/ DetectVegetation
    \/ Watershed \/ ContourFallback \/ Dedup \/ Remap \/ Sort
    \/ ClassifyStart \/ PrepareCrop \/ ForwardBatch \/ MapPredictions
    \/ Annotate \/ Return

\* ---- what an invocation is given ----
MaxImages == 3
MaxCandidates == 2
BatchOverrun == 2

BadFile == [decodes |-> FALSE, w |-> 0, h |-> 0]
SmallImage == [decodes |-> TRUE, w |-> 2000, h |-> 1500]
LargeImage == [decodes |-> TRUE, w |-> 4000, h |-> 3000]
ImageKinds == {BadFile, SmallImage, LargeImage}
\* Photographs taken upright: 3000 x 6000, and 4500 x 9000
UprightImage == [decodes |-> TRUE, w |-> 3000, h |-> 6000]
TallImage == [decodes |-> TRUE, w |-> 4500, h |-> 9000]
\* A frame of a 20-megapixel drone camera
DroneImage == [decodes |-> TRUE, w |-> 5472, h |-> 3648]
\* A long narrow strip, as a scan along one row of trees gives
StripImage == [decodes |-> TRUE, w |-> 40, h |-> 2000]

StitchedSizes == {<<2800, 1500>>, <<5000, 3000>>}

Labels == <<"Healthy", "Leaf Blight", "Leaf Yellowing", "Powdery Mildew">>

\* (classification_model, transform, class_names) as callers may pass them
ClassifierArgs ==
    {<<None, None, <<>>>>,
     <<None, "transform", Labels>>,
     <<"model", None, Labels>>,
     <<"model", "transform", <<>>>>,
     <<"model", "transform", SubSeq(Labels, 1, 3)>>,
     <<"model", "transform", Labels>>}

Cand(label, bbox, centroid, area, solidity, circularity) ==
    [label |-> label, bbox |-> bbox, centroid |-> centroid, area |-> area,
     solidity |-> solidity, circularity |-> circularity]

\* Labelled areas the watershed may produce on the segmentation image: crowns in two
\* rows, an overlapping pair, and areas the tests of lines 142-157 reject.
WsUniverse ==
    {Cand(2, <<100, 40, 60, 60>>, <<130, 70>>, 3000, 80, 70),
     Cand(3, <<300, 150, 60, 50>>, <<330, 175>>, 2500, 60, 60),
     Cand(4, <<120, 50, 60, 60>>, <<150, 80>>, 2800, 50, 50),
     Cand(5, <<50, 160, 60, 60>>, <<80, 190>>, 3600, 60, 60),
     Cand(6, <<600, 20, 50, 60>>, <<625, 95>>, 2700, 70, 40),
     Cand(7, <<500, 500, 300, 50>>, <<650, 525>>, 9000, 90, 30),
     Cand(8, <<700, 700, 50, 50>>, <<725, 725>>, 2024, 90, 90),
     Cand(9, <<900, 300, 60, 60>>, <<930, 330>>, 3000, 20, 20)}

Contour(bbox, centroid, area, solidity, circularity, blobs) ==
    [bbox |-> bbox, centroid |-> centroid, area |-> area, solidity |-> solidity,
     circularity |-> circularity, blobs |-> blobs]

Blob(stat_area, cx, cy) == [stat_area |-> stat_area, cx |-> cx, cy |-> cy]

\* External contours the fallback may find: none; one crown; one crown next to a large
\* merged blob that splits into three parts, one of them at the image border.
CtScenes ==
    {<<>>,
     <<Contour(<<1200, 900, 70, 60>>, <<1235, 930>>, 3300, 75, 65, <<>>)>>,
     <<Contour(<<100, 40, 62, 60>>, <<131, 70>>, 3100, 85, 60, <<>>),
       Contour(<<0, 1000, 900, 400>>, <<450, 1200>>, 250000, 60, 30,
               <<Blob(400, 5, 1100), Blob(900, 400, 1200), Blob(20, 600, 1250),
                 Blob(700, 800, 1300)>>)>>}

\* The vegetation of a strip image: one blob over nearly all of it, with two cores.
StripScenes ==
    {<<Contour(<<0, 20, 40, 1950>>, <<20, 990>>, 76000, 90, 10,
               <<Blob(3000, 20, 500), Blob(3000, 20, 1500)>>)>>,
     <<Contour(<<0, 20, 40, 120>>, <<20, 80>>, 3000, 90, 40, <<>>)>>}

\* A plantation of n crowns on a grid, as the watershed labels them, last crown first.
GridCrown(k) ==
    LET col == k % 12
        row == k \div 12
        x == 40 + col * 200 + (row % 2) * 7
        y == 30 + row * 130 + (col % 3) * 20
    IN  Cand(k + 2, <<x, y, 60, 50>>, <<x + 30, y + 25>>, 2400, 80, 70)

GridScene(n) == [i \in 1..n |-> GridCrown(n - i)]

\* Crown counts around one full batch of crops.
GridCounts == BATCH_SIZE .. BATCH_SIZE + BatchOverrun

\* One to MaxImages files, decodable or not, and every answer of the stitcher.
InitStitching ==
    /\ image_paths \in SeqsUpTo(ImageKinds, MaxImages) \ {<<>>}
    /\ stitch_outcomes \in [1..2 -> StitchResults]
    /\ stitched_size \in StitchedSizes
    /\ \E args \in {<<None, None, <<>>>>, <<"model", "transform", Labels>>} :
          classification_model = args[1] /\ transform = args[2] /\ class_names = args[3]
    /\ ws_candidates = GridScene(3)
    /\ ct_candidates = <<>>
    /\ transform_raises = {}
    /\ model_raises_at = 0
    /\ fp_low = FALSE /\ fp_low_area = FALSE

\* One image, every short list of watershed areas, every contour scene.
InitScenes ==
    /\ \E img \in ({SmallImage} \X {FALSE}) \cup ({LargeImage} \X BOOLEAN) :
          image_paths = <<img[1]>> /\ fp_low = img[2]
    /\ fp_low_area \in BOOLEAN
    /\ stitch_outcomes = [m \in 1..2 |-> "OK"]
    /\ stitched_size = <<2800, 1500>>
    /\ classification_model = "model" /\ transform = "transform" /\ class_names = Labels
    /\ ws_candidates \in SeqsUpTo(WsUniverse, MaxCandidates)
    /\ ct_candidates \in CtScenes
    /\ transform_raises = {}
    /\ model_raises_at = 0

\* One image of a few crowns, every way of passing the classifier, transforms and
\* forward passes that raise.
InitClassifier ==
    /\ image_paths = <<LargeImage>>
    /\ stitch_outcomes = [m \in 1..2 |-> "OK"]
    /\ stitched_size = <<2800, 1500>>
    /\ \E args \in ClassifierArgs :
          classification_model = args[1] /\ transform = args[2] /\ class_names = args[3]
    /\ \E n \in {1, FallbackBelow} : ws_candidates = GridScene(n)
    /\ ct_candidates = <<>>
    /\ transform_raises \in {{}, {0}, 0 .. FallbackBelow - 1}
    /\ model_raises_at \in 0..1
    /\ fp_low = FALSE /\ fp_low_area = FALSE

\* One image of a plantation that fills more than one batch of crops.
InitBatches ==
    /\ image_paths = <<LargeImage>>
    /\ stitch_outcomes = [m \in 1..2 |-> "OK"]
    /\ stitched_size = <<2800, 1500>>
    /\ classification_model = "model" /\ transform = "transform" /\ class_names = Labels
    /\ \E n \in GridCounts : ws_candidates = GridScene(n)
    /\ ct_candidates = <<>>
    /\ transform_raises \in {{}, {1}}
    /\ model_raises_at \in 0..2
    /\ fp_low = FALSE /\ fp_low_area = FALSE

\* One image whose watershed pass finds one crown fewer than the fallback limit, or
\* as many, with every contour scene.
InitFallback ==
    /\ image_paths = <<LargeImage>>
    /\ stitch_outcomes = [m \in 1..2 |-> "OK"]
    /\ stitched_size = <<2800, 1500>>
    /\ classification_model = None /\ transform = None /\ class_names = <<>>
    /\ \E n \in {FallbackBelow - 1, FallbackBelow} : ws_candidates = GridScene(n)
    /\ ct_candidates \in CtScenes
    /\ transform_raises = {}
    /\ model_raises_at = 0
    /\ fp_low = FALSE /\ fp_low_area = FALSE

\* Two images one of which is upright, and a run of more images than ManyImages.
InitOrientations ==
    /\ image_paths \in {<<UprightImage, LargeImage>>, <<TallImage, LargeImage>>,
                        [i \in 1..ManyImages + 1 |-> LargeImage],
                        [i \in 1..ManyImages + 1 |->
                            IF i = 1 THEN UprightImage ELSE LargeImage]}
    /\ stitch_outcomes \in {[m \in 1..2 |-> "OK"], [m \in 1..2 |-> "cv2.error"]}
    /\ stitched_size = <<2800, 1500>>
    /\ classification_model = None /\ transform = None /\ class_names = <<>>
    /\ ws_candidates = GridScene(3)
    /\ ct_candidates = <<>>
    /\ transform_raises = {}
    /\ model_raises_at = 0
    /\ fp_low = FALSE /\ fp_low_area = FALSE

\* One strip image and its vegetation.
InitStrip ==
    /\ image_paths = <<StripImage>>
    /\ stitch_outcomes = [m \in 1..2 |-> "OK"]
    /\ stitched_size = <<2800, 1500>>
    /\ \E args \in {<<None, None, <<>>>>, <<"model", "transform", Labels>>} :
          classification_model = args[1] /\ transform = args[2] /\ class_names = args[3]
    /\ ws_candidates = <<>>
    /\ ct_candidates \in StripScenes
    /\ transform_raises = {}
    /\ model_raises_at = 0
    /\ fp_low = FALSE /\ fp_low_area = FALSE

\* Crowns at the borders of a segmentation image of w x h pixels: in the top left
\* corner, at the right edge, at the bottom edge and in the bottom right corner.
BorderScene(w, h) ==
    <<Cand(2, <<0, 0, 60, 50>>, <<30, 25>>, 2400, 80, 70),
      Cand(3, <<w - 60, 400, 60, 50>>, <<w - 30, 425>>, 2400, 80, 70),
      Cand(4, <<500, h - 50, 60, 50>>, <<530, h - 25>>, 2400, 80, 70),
      Cand(5, <<w - 60, h - 50, 60, 50>>, <<w - 1, h - 1>>, 2400, 80, 70)>>

\* One drone frame, or one frame of 4000 x 3000, whose crowns reach the borders of
\* the downscaled image.
InitBorder ==
    /\ \E img \in {DroneImage, LargeImage} : image_paths = <<img>>
    /\ fp_low \in BOOLEAN /\ fp_low_area = FALSE
    /\ stitch_outcomes = [m \in 1..2 |-> "OK"]
    /\ stitched_size = <<2800, 1500>>
    /\ classification_model = None /\ transform = None /\ class_names = <<>>
    /\ LET img == image_paths[1]
           longest == Max2(img.w, img.h)
       IN  ws_candidates = BorderScene(Trunc(img.w, SEG_MAX_EDGE, longest),
                                       Trunc(img.h, SEG_MAX_EDGE, longest))
    /\ ct_candidates = <<>>
    /\ transform_raises = {}
    /\ model_raises_at = 0

\* Two neighbouring crowns whose boxes overlap a little less than the threshold of
\* the deduplication, and a second detection of the first crown.
NeighbourScene ==
    <<Cand(2, <<102, 40, 60, 60>>, <<132, 70>>, 3000, 80, 70),
      Cand(3, <<122, 53, 62, 60>>, <<153, 83>>, 3000, 70, 60),
      Cand(4, <<104, 42, 60, 60>>, <<134, 72>>, 2800, 60, 50)>>

\* One image of the neighbouring crowns, small enough to be segmented as it is or
\* large enough to be downscaled.
InitNeighbours ==
    /\ \E img \in ({SmallImage} \X {FALSE}) \cup ({LargeImage} \X BOOLEAN) :
          image_paths = <<img[1]>> /\ fp_low = img[2]
    /\ fp_low_area = FALSE
    /\ stitch_outcomes = [m \in 1..2 |-> "OK"]
    /\ stitched_size = <<2800, 1500>>
    /\ classification_model = None /\ transform = None /\ class_names = <<>>
    /\ ws_candidates = NeighbourScene
    /\ ct_candidates = <<>>
    /\ transform_raises = {}
    /\ model_raises_at = 0

PipeInit ==
    /\ DedupIdle /\ VoteIdle /\ RoundTripIdle /\ RestIdle
    /\ \/ InitStitching \/ InitScenes \/ InitClassifier \/ InitBatches \/ InitStrip
       \/ InitFallback \/ InitOrientations \/ InitBorder \/ InitNeighbours
    /\ pc = "start"
    /\ PipeFresh

SpecPipe == PipeInit /\ [][PipeNext]_vars

(***************************************************************************)
(* Properties of process_panoramic_images                                  *)
(***************************************************************************)
\* The invocation has passed the sort of lines 520-521.
Sorted == pc \in {"classify", "crop", "forward", "map", "annotate", "return", "returned"}

\* The invocation has passed annotate_trees_enhanced.
Annotated == pc \in {"return", "returned"}

\* C3: after the sort the regions are in non-decreasing order of the key
\* (centroid.y // 100, centroid.x), sorting them again leaves the order as it is,
\* and the numbers of the tree list are exactly 1..N in that order.
C3_DeterministicNumbering ==
    /\ Sorted =>
          /\ \A i \in 1..Len(tree_regions) - 1 :
                LET a == tree_regions[i].centroid
                    b == tree_regions[i + 1].centroid
                IN  ~KeyLess(<<b[2] \div 100, b[1]>>, <<a[2] \div 100, a[1]>>)
          /\ SortReadingOrder(tree_regions) = tree_regions
    /\ Annotated =>
          /\ Len(tree_data) = Len(tree_regions)
          /\ \A i \in 1..Len(tree_data) : tree_data[i].number = i

\* C3 witness: a returned plantation of two rows whose regions were detected in another
\* order, with a crown lower in the image numbered before a higher one of the same row.
C3_Witness ==
    /\ pc = "returned"
    /\ Len(tree_data) >= FallbackBelow
    /\ \E i, j \in 1..Len(tree_regions) :
          /\ i < j
          /\ tree_regions[i].label > tree_regions[j].label
          /\ tree_regions[i].centroid[2] > tree_regions[j].centroid[2]
    /\ \E i, j \in 1..Len(tree_regions) :
          tree_regions[i].centroid[2] \div 100 < tree_regions[j].centroid[2] \div 100

\* The part of C4 that does not concern the bbox: entry i carries number and id i,
\* the centroid, disease and confidence of region i, the number i is drawn at that
\* centroid, and num_trees is the number of sorted regions.
EntriesFollowRegions ==
    /\ num_trees = Len(tree_regions)
    /\ Len(heap[annotated].drawn) = Len(tree_regions)
    /\ \A i \in 1..Len(tree_regions) :
          /\ tree_data[i].number = i
          /\ tree_data[i].id = <<"Tree_", i>>
          /\ tree_data[i].centroid = tree_regions[i].centroid
          /\ tree_data[i].disease = tree_regions[i].disease
          /\ tree_data[i].confidence = tree_regions[i].confidence
          /\ heap[annotated].drawn[i] = [at |-> tree_regions[i].centroid, text |-> i]

\* C4 as stated: the entry's bbox is the bbox of the region.
C4_EntriesCarryRegionBbox ==
    Annotated =>
        /\ EntriesFollowRegions
        /\ \A i \in 1..Len(tree_regions) : tree_data[i].bbox = tree_regions[i].bbox

\* C4: the returned tree list and the drawn numbers follow the sorted regions: entry i
\* (from 1) has number i and id Tree_<i>, the centroid, disease and confidence of
\* region i, the number i is drawn at that centroid, num_trees is the number of
\* regions, and the entry's bbox is the region's box as corners (x, y, x + w, y + h).
C4_EntriesFollowRegions ==
    Annotated =>
        /\ EntriesFollowRegions
        /\ \A i \in 1..Len(tree_regions) :
              LET b == tree_regions[i].bbox
              IN  tree_data[i].bbox = <<b[1], b[2], b[1] + b[3], b[2] + b[4]>>

\* C4 witness: a returned result of several classified trees.
C4_Witness ==
    /\ pc = "returned"
    /\ Len(tree_data) >= 3
    /\ \A i \in 1..Len(tree_data) : tree_data[i].disease # None
    /\ \E i, j \in 1..Len(tree_data) : tree_data[i].disease # tree_data[j].disease

\* The classification stage is over and the invocation goes on to the annotation.
Classified == pc \in {"annotate", "return", "returned"}

\* C6: with a classifier supplied, every region whose crop was prepared has the label
\* and the confidence the classifier gives for that region's own crop, which is what
\* a batch of that crop alone yields, however many crops and batches there are; a
\* region whose crop was skipped is 'Unknown' with confidence 0 and shifts no other.
C6_BatchingEquivalence ==
    (Classified /\ classification_model # None /\ transform # None /\ class_names # <<>>) =>
        \A i \in 1..Len(tree_regions) :
            LET region == tree_regions[i]
                b == region.bbox
                pad == Min2(b[3], b[4]) \div 10
                crop == <<Max2(0, b[1] - pad), Max2(0, b[2] - pad),
                          Min2(heap[panorama].w, b[1] + b[3] + pad),
                          Min2(heap[panorama].h, b[2] + b[4] + pad)>>
                alone == ClassifierOutput(crop)
            IN  IF crop[3] <= crop[1] \/ crop[4] <= crop[2] \/ (i - 1) \in transform_raises
                THEN region.disease = "Unknown" /\ region.confidence = 0
                ELSE /\ region.disease = IF alone.pred < Len(class_names)
                                         THEN class_names[alone.pred + 1] ELSE "Unknown"
                     /\ region.confidence = alone.conf

\* C6 witness: a returned result for more crops than one batch holds, classified in a
\* full batch and a second one, with a skipped region before the batch boundary and
\* regions of different labels.
C6_Witness ==
    /\ pc = "returned"
    /\ Len(crop_tensors) > BATCH_SIZE
    /\ forward_calls = <<BATCH_SIZE, Len(crop_tensors) - BATCH_SIZE>>
    /\ Len(crop_tensors) < Len(tree_regions)
    /\ \E i, j \in 1..Len(tree_regions) :
          /\ tree_regions[i].disease \notin {"Unknown", None}
          /\ tree_regions[j].disease \notin {"Unknown", None}
          /\ tree_regions[i].disease # tree_regions[j].disease

\* C8: without a classification model no crop is prepared and no forward pass is
\* made at any time, and the result has the empty disease_counts, disease None for
\* every tree, and trees numbered 1..num_trees for the segmented regions.
C8_ClassifierOmitted ==
    classification_model = None =>
        /\ crop_tensors = <<>> /\ crop_indices = <<>> /\ idx = 0
        /\ forward_calls = <<>> /\ all_preds = <<>>
        /\ pc \notin {"crop", "forward", "map"}
        /\ DOMAIN disease_counts = {}
        /\ \A i \in 1..Len(tree_regions) : tree_regions[i].disease = None
        /\ Annotated =>
              /\ num_trees = Len(tree_regions)
              /\ \A i \in 1..Len(tree_data) :
                    tree_data[i].disease = None /\ tree_data[i].number = i

\* C8 witness: a returned result of several trees for a call that passes a transform
\* and class names but no model.
C8_Witness ==
    /\ pc = "returned"
    /\ classification_model = None /\ transform # None /\ class_names # <<>>
    /\ num_trees >= FallbackBelow

\* C9: with one input image the stitcher is never entered, and from the read on the
\* panorama is the decoded input: same size, not resized, nothing drawn into it,
\* also where the segmentation runs on a downscaled copy.
C9_SingleImageUnchanged ==
    Len(image_paths) = 1 =>
        /\ pc \notin {"stitch_load", "stitch_try", "stitch_none"}
        /\ paths_to_use = <<>> /\ images = <<>> /\ stitch_log = <<>>
        /\ pc \notin {"start", "check", "raised"} =>
              /\ panorama # None
              /\ heap[panorama] = [kind |-> "file", src |-> 1, w |-> image_paths[1].w,
                                   h |-> image_paths[1].h, drawn |-> <<>>]

\* C9 witness: a returned result for one large image, segmented on a downscaled
\* copy and annotated with its trees.
C9_Witness ==
    /\ pc = "returned"
    /\ Len(image_paths) = 1
    /\ Max2(image_paths[1].w, image_paths[1].h) > SEG_MAX_EDGE
    /\ seg_img # panorama
    /\ heap[annotated].drawn # <<>>

\* Both stitching modes were tried and neither returned a panorama.
BothModesFailed ==
    /\ Len(stitch_log) = 2
    /\ stitch_log[1][2] # "OK" /\ stitch_log[2][2] # "OK"

\* C10: PANORAMA is tried first and SCANS only after PANORAMA failed; when both have
\* failed the invocation goes on with the first input image as the panorama; no
\* status or exception of the stitcher leaves the invocation.
C10_StitchFallback ==
    /\ Len(stitch_log) >= 1 => stitch_log[1][1] = "PANORAMA"
    /\ Len(stitch_log) >= 2 => stitch_log[2][1] = "SCANS" /\ stitch_log[1][2] # "OK"
    /\ Len(stitch_log) <= 2
    /\ raised \notin StitchResults
    /\ (BothModesFailed /\ pc \notin {"stitch_try", "stitch_none"}) =>
          /\ pc # "raised"
          /\ panorama # None
          /\ heap[panorama].kind = "file" /\ heap[panorama].src = 1

\* The invocation has ended: it returned a result or an exception left it.
Ended == pc \in {"returned", "raised"}

\* Some input file decodes.
SomeImageDecodes == \E i \in 1..Len(image_paths) : image_paths[i].decodes

\* C11: the error 'Could not load any images' leaves the invocation only when no
\* input file decodes; when some input file decodes, whatever its position, the
\* panorama checked at line 461 is a decoded image and the invocation goes on.
C11_LoadErrorOnlyWhenNoneDecodes ==
    /\ raised = "ValueError: Could not load any images" => ~SomeImageDecodes
    /\ (SomeImageDecodes /\ pc \notin {"start", "stitch_load", "stitch_try",
                                        "stitch_none", "check"}) =>
          /\ panorama # None
          /\ raised # "ValueError: Could not load any images"

\* C12: no failure of the classification stage leaves the invocation: a forward pass
\* that raises does not end it, the regions whose crop or batch failed are 'Unknown',
\* and every other region has the label of its own crop when the stage is over.
C12_FailureNeverAborts ==
    /\ raised # "classification_model raised"
    /\ (Classified /\ ClassifierSupplied) =>
          \A i \in 1..Len(tree_regions) :
              IF (i - 1) \in transform_raises
              THEN tree_regions[i].disease = "Unknown"
              ELSE tree_regions[i].disease =
                      LabelOf(ClassifierOutput(CropRect(tree_regions[i].bbox,
                                                        heap[panorama])).pred)

(***************************************************************************)
(* The reading-order sort and the detection order                          *)
(*   segmentation_enhanced.py 519-521 and 769-771                          *)
(***************************************************************************)
MaxSorted == 3

\* Centroids of detected crowns: two rows of 100 px, two crowns of the first row
\* above each other (same x), one crown at a row boundary.
CentroidUniverse == {<<10, 20>>, <<10, 80>>, <<50, 60>>, <<5, 130>>, <<30, 100>>}

DetectedRegions ==
    {[label |-> c[1] + c[2], centroid |-> c] : c \in CentroidUniverse}

\* The orders in which a set of at most n regions may be detected.
DetectionOrders(n) ==
    {s \in SeqsUpTo(DetectedRegions, n) : \A i, j \in 1..Len(s) : i # j => s[i] # s[j]}

OrderInit ==
    /\ DedupIdle /\ VoteIdle /\ RoundTripIdle /\ PipeIdle /\ UploadIdle /\ VideoIdle
    /\ ConcIdle /\ ExtraIdle
    /\ detected_a \in DetectionOrders(MaxSorted)
    /\ detected_b \in {s \in DetectionOrders(MaxSorted) : Range(s) = Range(detected_a)}
    /\ numbered_a = <<>> /\ numbered_b = <<>>
    /\ order_pc = "sort"

\* The sort of lines 520-521 on each of the two detection orders.
SortDetected ==
    /\ order_pc = "sort"
    /\ numbered_a' = SortReadingOrder(detected_a)
    /\ numbered_b' = SortReadingOrder(detected_b)
    /\ order_pc' = "sorted"
    /\ UNCHANGED <<detected_a, detected_b, dedupVars, voteVars, remapVars, pipeVars,
                   uploadVars, videoVars, concVars, extraVars>>

OrderNext == SortDetected

SpecOrder == OrderInit /\ [][OrderNext]_vars

\* Position of region r in the sequence s that holds it once.
PositionIn(s, r) == CHOOSE i \in 1..Len(s) : s[i] = r

\* Two regions have the same key (centroid.y // 100, centroid.x).
SameKey(r1, r2) ==
    /\ r1.centroid[2] \div 100 = r2.centroid[2] \div 100
    /\ r1.centroid[1] = r2.centroid[1]

ScaledBy(v, u, num, den) == u * den <= v * num /\ v * num <= (u + 1) * den

\* The longest edge of the panorama.
Longest == Max2(heap[panorama].w, heap[panorama].h)

\* The step of lines 468-480 downscales by 3000 / longest exactly when the longest edge
\* exceeds 3000, into a buffer of its own.
DownscaleStep ==
    (pc = "downscale" /\ pc' = "preprocess") =>
        IF Longest > 3000
        THEN /\ seg_img' # panorama /\ panorama' = panorama
             /\ scale' = <<3000, Longest>>
             /\ ScaledBy(heap[panorama].w, heap'[seg_img'].w, 3000, Longest)
             /\ ScaledBy(heap[panorama].h, heap'[seg_img'].h, 3000, Longest)
        ELSE seg_img' = panorama /\ scale' = <<1, 1>> /\ heap' = heap

\* The step of lines 507-517 multiplies bbox, centroid and area of every region by
\* 1 / scale exactly when the segmentation ran on a downscaled copy.
RemapStep ==
    (pc = "remap" /\ pc' = "sort") =>
        IF Longest > 3000
        THEN /\ Len(tree_regions') = Len(tree_regions)
             /\ \A i \in 1..Len(tree_regions) :
                   LET old == tree_regions[i]
                       new == tree_regions'[i]
                       once == (old.area * Longest) \div 3000
                   IN  /\ \A k \in 1..4 : ScaledBy(old.bbox[k], new.bbox[k], Longest, 3000)
                       /\ \A k \in 1..2 :
                             ScaledBy(old.centroid[k], new.centroid[k], Longest, 3000)
                       /\ ScaledBy(once, new.area, Longest, 3000)
                       /\ new.label = old.label
        ELSE tree_regions' = tree_regions

\* The invocation has not yet sorted the regions.
BeforeSort ==
    pc \in {"start", "stitch_load", "stitch_try", "stitch_none", "check", "downscale",
            "preprocess", "vegetation", "watershed", "contour", "dedup", "remap", "sort"}

\* C14: a panorama whose longest edge exceeds 3000 px is segmented on a copy
\* downscaled by 3000 / longest and every region's bbox, centroid and area are scaled
\* back by 1 / scale (area twice) in the step before the sort; until that step is
\* done no crop is taken and nothing is annotated; a panorama of at most 3000 px is
\* segmented as it is and the regions keep their coordinates.
C14_RemapBeforeUse ==
    /\ [][DownscaleStep]_vars
    /\ [][RemapStep]_vars
    /\ [](preprocessed # None =>
             /\ heap[preprocessed].w = heap[seg_img].w
             /\ heap[preprocessed].h = heap[seg_img].h)
    /\ [](BeforeSort => crop_tensors = <<>> /\ annotated = None /\ tree_data = <<>>)

\* C14 witness: a returned result for a panorama of 4000 px with a classified tree
\* whose centroid lies beyond the 3000 px of the segmentation image.
C14_Witness ==
    /\ pc = "returned"
    /\ scale[1] < scale[2]
    /\ crop_tensors # <<>>
    /\ \E i \in 1..Len(tree_data) : tree_data[i].centroid[1] > SEG_MAX_EDGE

\* C15: every region the segmenter has created has area > 0, solidity >= 0 and an
\* aspect_ratio within [0.25, 4.0], for the watershed regions, the contour regions
\* and the sub-regions of a split blob alike.
C15_RegionsWellFormed ==
    \A i \in 1..Len(tree_regions) :
        LET r == tree_regions[i]
        IN  /\ r.area > 0
            /\ r.solidity >= 0
            /\ r.aspect_ratio[2] <= 4 * r.aspect_ratio[1]
            /\ r.aspect_ratio[1] <= 4 * r.aspect_ratio[2]

\* The default size band of an image: max(200, int(0.0003 * H * W)), with the float
\* product as the invocation computes it, and int(0.08 * H * W).
DefaultMinArea(img) ==
    LET prod == img.w * img.h * 3
        q == prod \div 10000
    IN  Max2(200, IF fp_low_area /\ prod % 10000 = 0 /\ q >= 1 THEN q - 1 ELSE q)

DefaultMaxArea(img) == (img.w * img.h * 8) \div 100

\* area, aspect ratio bw / (bh + 1e-5) and solidity are inside the accepted ranges.
InsideRanges(area, bw, bh, solidity, img) ==
    /\ DefaultMinArea(img) <= area /\ area <= DefaultMaxArea(img)
    /\ bh * 100000 + 1 <= 4 * bw * 100000
    /\ bw * 100000 <= 4 * (bh * 100000 + 1)
    /\ solidity >= 30

\* C20: what segment_individual_trees_watershed returns are regions with
\* min_tree_area <= area <= max_tree_area, aspect ratio in [0.25, 4.0] and
\* solidity >= 0.3, and a labelled area that breaks one of these conditions is not
\* among them, while one that meets them all is.
C20_WatershedBand ==
    pc = "contour" =>
        /\ \A i \in 1..Len(tree_regions) :
              LET r == tree_regions[i]
              IN  InsideRanges(r.area, r.bbox[3], r.bbox[4], r.solidity, heap[preprocessed])
        /\ \A k \in 1..Len(ws_candidates) :
              LET c == ws_candidates[k]
              IN  InsideRanges(c.area, c.bbox[3], c.bbox[4], c.solidity, heap[preprocessed])
                     <=> \E i \in 1..Len(tree_regions) :
                            /\ tree_regions[i].label = c.label
                            /\ tree_regions[i].bbox = c.bbox
                            /\ tree_regions[i].area = c.area

\* C20 witness: the watershed returned one of two labelled areas, the one whose area
\* is the minimum itself, and rejected the other.
C20_Witness ==
    /\ pc = "contour"
    /\ Len(ws_candidates) = 2
    /\ Len(tree_regions) = 1
    /\ tree_regions[1].area = DefaultMinArea(heap[preprocessed])

\* The float solidity*0.5 + circularity*0.3 + min(area/10000, 1.0)*0.2 of a region,
\* times 100000, written out from lines 267-268.
QualityScore(r) ==
    500 * r.solidity + 300 * r.circularity + (IF r.area < 10000 THEN 2 * r.area ELSE 20000)

\* inter / (union + 1e-5) > overlap_threshold for two boxes (x, y, w, h).
OverlapsBeyondThreshold(b1, b2) ==
    LET v == iou(b1, b2)
    IN  v[1] * EpsDen * 100 > overlap_threshold * (v[2] * EpsDen + 1)

\* C19: remove_duplicate_trees is greedy by quality: a region of the highest quality
\* of the input is the first one kept, the output is in descending quality order, a
\* kept region has IoU <= threshold with every region kept before it, and every
\* region dropped has IoU > threshold with a kept region of quality no lower than
\* its own.
C19_GreedyByQuality ==
    dedup_pc = "returned" =>
        /\ dedup_regions # <<>> =>
              /\ unique # <<>>
              /\ \A i \in 1..Len(dedup_regions) :
                    QualityScore(unique[1]) >= QualityScore(dedup_regions[i])
        /\ \A i, j \in 1..Len(unique) :
              i < j =>
                 /\ QualityScore(unique[i]) >= QualityScore(unique[j])
                 /\ ~OverlapsBeyondThreshold(unique[j].bbox, unique[i].bbox)
        /\ \A i \in 1..Len(dedup_regions) :
              LET r == dedup_regions[i]
              IN  Occurrences(unique, r) < Occurrences(dedup_regions, r) =>
                     \E k \in 1..Len(unique) :
                        /\ OverlapsBeyondThreshold(r.bbox, unique[k].bbox)
                        /\ QualityScore(unique[k]) >= QualityScore(r)

\* C19 witness: three regions given in ascending quality order, the middle one dropped
\* for its overlap with the best, the other two returned best first.
C19_Witness ==
    /\ dedup_pc = "returned"
    /\ Len(dedup_regions) = 3
    /\ QualityScore(dedup_regions[1]) < QualityScore(dedup_regions[2])
    /\ QualityScore(dedup_regions[2]) < QualityScore(dedup_regions[3])
    /\ unique = <<dedup_regions[3], dedup_regions[1]>>

(***************************************************************************)
(* app.py process_drone_images  (230-304)                                  *)
(***************************************************************************)
MaxUploads == 3

\* An upload has a filename or not, and file.save(img_path) succeeds or raises.
UploadKinds ==
    {[named |-> TRUE, save |-> "ok"], [named |-> TRUE, save |-> "raises"],
     [named |-> FALSE, save |-> "ok"]}

notUploadVars == <<dedupVars, voteVars, remapVars, pipeVars, orderVars, videoVars,
                   concVars, extraVars>>

UploadInit ==
    /\ DedupIdle /\ VoteIdle /\ RoundTripIdle /\ PipeIdle /\ OrderIdle /\ VideoIdle
    /\ ConcIdle /\ ExtraIdle
    /\ up_has_field \in BOOLEAN
    /\ up_files \in SeqsUpTo(UploadKinds, MaxUploads)
    /\ ~up_has_field => up_files = <<>>
    /\ up_pipeline_raises \in BOOLEAN
    /\ up_i = 1 /\ up_image_paths = <<>> /\ up_disk = {} /\ up_exc = FALSE
    /\ up_status = 0 /\ up_pc = "validate"

\* Lines 233-238: the two early returns.
UploadValidate ==
    /\ up_pc = "validate"
    /\ IF ~up_has_field \/ Len(up_files) < 1
       THEN up_status' = 400 /\ up_pc' = "returned"
       ELSE up_status' = up_status /\ up_pc' = "save"
    /\ UNCHANGED <<up_has_field, up_files, up_pipeline_raises, up_i, up_image_paths, up_disk,
                   up_exc, notUploadVars>>

\* Lines 242-247: one pass of the save loop. An exception of file.save leaves
\* for the except clause of line 302: the loop is not inside the try of line 252.
SaveUpload ==
    /\ up_pc = "save"
    /\ up_i <= Len(up_files)
    /\ LET file == up_files[up_i]
       IN  IF ~file.named
           THEN /\ up_i' = up_i + 1
                /\ UNCHANGED <<up_image_paths, up_disk, up_exc, up_pc>>
           ELSE IF file.save = "raises"
           THEN /\ up_exc' = TRUE
                /\ up_pc' = "except"
                /\ UNCHANGED <<up_i, up_image_paths, up_disk>>
           ELSE /\ up_disk' = up_disk \cup {up_i}
                /\ up_image_paths' = Append(up_image_paths, up_i)
                /\ up_i' = up_i + 1
                /\ UNCHANGED <<up_exc, up_pc>>
    /\ UNCHANGED <<up_has_field, up_files, up_pipeline_raises, up_status, notUploadVars>>

\* Lines 249-250: after the loop.
CheckImagePaths ==
    /\ up_pc = "save"
    /\ up_i > Len(up_files)
    /\ IF up_image_paths = <<>>
       THEN up_status' = 400 /\ up_pc' = "returned"
       ELSE up_status' = up_status /\ up_pc' = "pipeline"
    /\ UNCHANGED <<up_has_field, up_files, up_pipeline_raises, up_i, up_image_paths, up_disk,
                   up_exc, notUploadVars>>

\* Lines 252-295: the try body, which returns the response or raises.
UploadPipeline ==
    /\ up_pc = "pipeline"
    /\ up_exc' = up_pipeline_raises
    /\ up_status' = IF up_pipeline_raises THEN up_status ELSE 200
    /\ up_pc' = "finally"
    /\ UNCHANGED <<up_has_field, up_files, up_pipeline_raises, up_i, up_image_paths, up_disk,
                   notUploadVars>>

\* Lines 297-300: the finally clause, then the return or the propagation.
UploadFinally ==
    /\ up_pc = "finally"
    /\ up_disk' = up_disk \ Range(up_image_paths)
    /\ up_pc' = IF up_exc THEN "except" ELSE "returned"
    /\ UNCHANGED <<up_has_field, up_files, up_pipeline_raises, up_i, up_image_paths, up_exc,
                   up_status, notUploadVars>>

\* Lines 302-304.
UploadExcept ==
    /\ up_pc = "except"
    /\ up_exc' = FALSE
    /\ up_status' = 500
    /\ up_pc' = "returned"
    /\ UNCHANGED <<up_has_field, up_files, up_pipeline_raises, up_i, up_image_paths, up_disk,
                   notUploadVars>>

UploadNext ==
    \/ UploadValidate
    \/ SaveUpload
    \/ CheckImagePaths
    \/ UploadPipeline
    \/ UploadFinally
    \/ UploadExcept

SpecUpload == UploadInit /\ [][UploadNext]_vars

\* C16: when process_drone_images returns, on whichever path, no file it saved for
\* the request is left in the upload directory.
C16_UploadsDeleted ==
    up_pc = "returned" => up_disk = {}

(***************************************************************************)
(* app.py process_drone_video  (308-473)                                   *)
(* File removals are those of a POSIX file system: os.remove and           *)
(* shutil.rmtree succeed on an existing path.  The resize of a frame       *)
(* (366-371) changes no state that is kept here.                           *)
(***************************************************************************)
FRAME_STEP == 30
MAX_FRAMES == 40

\* The statement groups that can raise: file.save (341), os.makedirs (342), the
\* frame extraction (348-378), the pipeline call (392-417), the response (424-456).
VideoFaults == {"none", "save", "makedirs", "extract", "pipeline", "encode"}
MaxFaultPass == 2
TotalFrameCounts == {-1, 0, 31, 61, 1300}
ReadablePasses == {{}, {2}, {1, 3}, 1..MAX_FRAMES}

vdEnv == <<vd_has_file, vd_named, vd_fault, vd_fault_at, vd_opens, vd_total_frames,
           vd_readable>>
notVideoVars == <<dedupVars, voteVars, remapVars, pipeVars, orderVars, uploadVars,
                  concVars, extraVars>>

\* list(range(0, total_frames, FRAME_STEP))[:MAX_FRAMES]
TargetIndices(total_frames) ==
    LET n == IF total_frames <= 0 THEN 0 ELSE (total_frames + FRAME_STEP - 1) \div FRAME_STEP
    IN  [i \in 1..Min2(n, MAX_FRAMES) |-> (i - 1) * FRAME_STEP]

\* The guard with the test of video_path inverted.
VideoToRemoveWhenCleared(path, exists) == path = None /\ exists

\* The guard of lines 384 and 464: video_path and os.path.exists(video_path).
VideoToRemove(path, exists) == path # None /\ exists

VideoInit ==
    /\ DedupIdle /\ VoteIdle /\ RoundTripIdle /\ PipeIdle /\ OrderIdle /\ UploadIdle
    /\ ConcIdle /\ ExtraIdle
    /\ vd_has_file \in BOOLEAN
    /\ vd_named \in BOOLEAN
    /\ vd_fault \in VideoFaults
    /\ vd_fault_at \in 0..MaxFaultPass
    /\ vd_opens \in BOOLEAN
    /\ vd_total_frames \in TotalFrameCounts
    /\ vd_readable \in ReadablePasses
    /\ vd_fault # "extract" => vd_fault_at = 0
    /\ ~vd_has_file => ~vd_named
    /\ ~vd_named =>
          /\ vd_fault = "none" /\ ~vd_opens /\ vd_total_frames = 0 /\ vd_readable = {}
    /\ video_path = None /\ frame_paths = <<>> /\ vd_k = 0
    /\ vd_video_exists = FALSE /\ vd_frame_dir_exists = FALSE /\ vd_frame_files = {}
    /\ vd_removals = 0 /\ vd_status = 0 /\ vd_pc = "validate"

\* Lines 333-337. A return statement inside the try leaves through the finally clause.
VideoValidate ==
    /\ vd_pc = "validate"
    /\ IF ~vd_has_file \/ ~vd_named
       THEN vd_status' = 400 /\ vd_pc' = "finally"
       ELSE vd_status' = vd_status /\ vd_pc' = "save"
    /\ UNCHANGED <<vdEnv, video_path, frame_paths, vd_k, vd_video_exists,
                   vd_frame_dir_exists, vd_frame_files, vd_removals, notVideoVars>>

\* Lines 340-342. A file.save that raises may have created the file.
VideoSave ==
    /\ vd_pc = "save"
    /\ video_path' = "video"
    /\ CASE vd_fault = "save" ->
              /\ vd_video_exists' \in BOOLEAN
              /\ vd_pc' = "except"
              /\ UNCHANGED vd_frame_dir_exists
         [] vd_fault = "makedirs" ->
              /\ vd_video_exists' = TRUE
              /\ vd_pc' = "except"
              /\ UNCHANGED vd_frame_dir_exists
         [] OTHER ->
              /\ vd_video_exists' = TRUE
              /\ vd_frame_dir_exists' = TRUE
              /\ vd_pc' = "open"
    /\ UNCHANGED <<vdEnv, frame_paths, vd_k, vd_frame_files, vd_removals, vd_status,
                   notVideoVars>>

\* Lines 346-356: open the capture and compute the target indices.
VideoOpen ==
    /\ vd_pc = "open"
    /\ CASE ~vd_opens ->
              vd_status' = 400 /\ vd_pc' = "finally" /\ UNCHANGED vd_k
         [] vd_opens /\ vd_fault = "extract" /\ vd_fault_at = 0 ->
              vd_pc' = "except" /\ UNCHANGED <<vd_status, vd_k>>
         [] OTHER ->
              vd_k' = 1 /\ vd_pc' = "extract" /\ UNCHANGED vd_status
    /\ UNCHANGED <<vdEnv, video_path, frame_paths, vd_video_exists, vd_frame_dir_exists,
                   vd_frame_files, vd_removals, notVideoVars>>

\* Lines 358-376: one pass of the extraction loop; saved_idx = vd_k - 1.
ExtractFrame ==
    /\ vd_pc = "extract"
    /\ vd_k <= Len(TargetIndices(vd_total_frames))
    /\ CASE vd_fault = "extract" /\ vd_fault_at = vd_k ->
              vd_pc' = "except" /\ UNCHANGED <<vd_k, frame_paths, vd_frame_files>>
         [] ~(vd_fault = "extract" /\ vd_fault_at = vd_k) /\ vd_k \notin vd_readable ->
              vd_k' = vd_k + 1 /\ UNCHANGED <<vd_pc, frame_paths, vd_frame_files>>
         [] OTHER ->
              /\ vd_frame_files' = vd_frame_files \cup {vd_k - 1}
              /\ frame_paths' = Append(frame_paths, vd_k - 1)
              /\ vd_k' = vd_k + 1
              /\ UNCHANGED vd_pc
    /\ UNCHANGED <<vdEnv, video_path, vd_video_exists, vd_frame_dir_exists, vd_removals,
                   vd_status, notVideoVars>>

\* Lines 378-389: release the capture, delete the raw video, test for no frames.
VideoRelease ==
    /\ vd_pc = "extract"
    /\ vd_k > Len(TargetIndices(vd_total_frames))
    /\ IF VideoToRemove(video_path, vd_video_exists)
       THEN /\ vd_video_exists' = FALSE
            /\ vd_removals' = vd_removals + 1
            /\ video_path' = None
       ELSE UNCHANGED <<vd_video_exists, vd_removals, video_path>>
    /\ IF frame_paths = <<>>
       THEN vd_status' = 400 /\ vd_pc' = "finally"
       ELSE vd_status' = vd_status /\ vd_pc' = "pipeline"
    /\ UNCHANGED <<vdEnv, frame_paths, vd_k, vd_frame_dir_exists, vd_frame_files,
                   notVideoVars>>

\* Lines 392-422: the pipeline call inside its own try; its except clause returns 500.
VideoPipeline ==
    /\ vd_pc = "pipeline"
    /\ IF vd_fault = "pipeline"
       THEN vd_status' = 500 /\ vd_pc' = "finally"
       ELSE vd_status' = vd_status /\ vd_pc' = "respond"
    /\ UNCHANGED <<vdEnv, video_path, frame_paths, vd_k, vd_video_exists,
                   vd_frame_dir_exists, vd_frame_files, vd_removals, notVideoVars>>

\* Lines 424-456: encode, enrich and return the response.
VideoRespond ==
    /\ vd_pc = "respond"
    /\ IF vd_fault = "encode"
       THEN vd_status' = vd_status /\ vd_pc' = "except"
       ELSE vd_status' = 200 /\ vd_pc' = "finally"
    /\ UNCHANGED <<vdEnv, video_path, frame_paths, vd_k, vd_video_exists,
                   vd_frame_dir_exists, vd_frame_files, vd_removals, notVideoVars>>

\* Lines 458-460.
VideoExcept ==
    /\ vd_pc = "except"
    /\ vd_status' = 500
    /\ vd_pc' = "finally"
    /\ UNCHANGED <<vdEnv, video_path, frame_paths, vd_k, vd_video_exists,
                   vd_frame_dir_exists, vd_frame_files, vd_removals, notVideoVars>>

\* Lines 462-473: the finally clause, after which the request returns.
VideoFinally ==
    /\ vd_pc = "finally"
    /\ IF VideoToRemove(video_path, vd_video_exists)
       THEN vd_video_exists' = FALSE /\ vd_removals' = vd_removals + 1
       ELSE UNCHANGED <<vd_video_exists, vd_removals>>
    /\ IF vd_frame_dir_exists
       THEN vd_frame_dir_exists' = FALSE /\ vd_frame_files' = {}
       ELSE UNCHANGED <<vd_frame_dir_exists, vd_frame_files>>
    /\ vd_pc' = "returned"
    /\ UNCHANGED <<vdEnv, video_path, frame_paths, vd_k, vd_status, notVideoVars>>

VideoNext ==
    \/ VideoValidate
    \/ VideoSave
    \/ VideoOpen
    \/ ExtractFrame
    \/ VideoRelease
    \/ VideoPipeline
    \/ VideoRespond
    \/ VideoExcept
    \/ VideoFinally

SpecVideo == VideoInit /\ [][VideoNext]_vars

\* The request got past file.save.
VideoWasSaved == vd_has_file /\ vd_named /\ vd_fault # "save" /\ vd_pc \notin {"validate", "save"}

Invocations == {1, 2}
MaxPerInvocation == 2

\* The panorama of each invocation.
ConcPanoramas == <<[w |-> 100, h |-> 100], [w |-> 60, h |-> 100]>>

ConcRegionUniverse ==
    {[bbox |-> b, disease |-> None, confidence |-> 0] :
        b \in {<<10, 10, 40, 40>>, <<30, 50, 40, 30>>}}

\* inference.py 91-92: model.to(device); model.eval(). The weights and the
\* normalisation statistics are summarised by one number.
LoadedModels == {[ref |-> "model", training |-> FALSE, stats |-> s] : s \in 0..1}

\* classification_model(batch) for one crop: the answer depends on the crop and on
\* the statistics the module holds.
ModelOutput(model, rect) ==
    [pred |-> (ClassifierOutput(rect).pred + model.stats) % NumOutputs,
     conf |-> ClassifierOutput(rect).conf]

\* A forward pass that updates the statistics whatever the mode.
ModelAfterForwardTraining(model, batch) ==
    [model EXCEPT !.stats = (@ + Len(batch)) % NumOutputs]

\* The module after a forward pass: a module in training mode updates its running
\* statistics with the batch, a module in eval mode does not.
ModelAfterForward(model, batch) ==
    IF model.training
    THEN [model EXCEPT !.stats = (@ + Len(batch)) % NumOutputs]
    ELSE model

\* class_names[pred_idx] if pred_idx < len(class_names) else 'Unknown'
LabelFrom(names, pred_idx) ==
    IF pred_idx < Len(names) THEN names[pred_idx + 1] ELSE "Unknown"

notConcVars == <<dedupVars, voteVars, remapVars, pipeVars, orderVars, uploadVars, videoVars,
                 extraVars>>

ConcInit ==
    /\ DedupIdle /\ VoteIdle /\ RoundTripIdle /\ PipeIdle /\ OrderIdle /\ UploadIdle
    /\ VideoIdle /\ ExtraIdle
    /\ shared_class_names \in {Labels, SubSeq(Labels, 1, 3)}
    /\ shared_transform = "transform"
    /\ shared_model \in LoadedModels
    /\ loaded = <<shared_class_names, shared_transform, shared_model>>
    /\ inv_panorama = [p \in Invocations |-> ConcPanoramas[p]]
    /\ inv_raises \in [Invocations -> {{}, {0}}]
    /\ inv_regions \in [Invocations -> SeqsUpTo(ConcRegionUniverse, MaxPerInvocation)]
    /\ inv_idx = [p \in Invocations |-> 0]
    /\ inv_crop_tensors = [p \in Invocations |-> <<>>]
    /\ inv_crop_indices = [p \in Invocations |-> <<>>]
    /\ inv_batch_start = [p \in Invocations |-> 0]
    /\ inv_all_preds = [p \in Invocations |-> <<>>]
    /\ inv_all_confs = [p \in Invocations |-> <<>>]
    /\ inv_map_i = [p \in Invocations |-> 0]
    /\ inv_disease_counts = [p \in Invocations |-> <<>>]
    /\ inv_pc = [p \in Invocations |-> "classify"]

\* Lines 524-534 in invocation p: the test of the three arguments.
ConcClassifyStart(p) ==
    /\ inv_pc[p] = "classify"
    /\ inv_pc' = [inv_pc EXCEPT ![p] =
                    IF shared_model.ref # None /\ shared_transform # None
                       /\ shared_class_names # <<>>
                    THEN (IF inv_regions[p] = <<>> THEN "done" ELSE "crop")
                    ELSE "done"]
    /\ UNCHANGED <<sharedVars, loaded, inv_panorama, inv_raises, inv_regions, inv_idx,
                   inv_crop_tensors, inv_crop_indices, inv_batch_start, inv_all_preds,
                   inv_all_confs, inv_map_i, inv_disease_counts, notConcVars>>

\* Lines 536-556 in invocation p: one pass of the crop loop; transform is called.
ConcPrepareCrop(p) ==
    /\ inv_pc[p] = "crop"
    /\ LET i == inv_idx[p]
           region == inv_regions[p][i + 1]
           rect == CropRect(region.bbox, inv_panorama[p])
           valid == ~CropEmpty(rect) /\ i \notin inv_raises[p]
           tensors == IF valid THEN Append(inv_crop_tensors[p], rect)
                      ELSE inv_crop_tensors[p]
       IN  /\ inv_crop_tensors' = [inv_crop_tensors EXCEPT ![p] = tensors]
           /\ inv_crop_indices' =
                 IF valid THEN [inv_crop_indices EXCEPT ![p] = Append(@, i)]
                 ELSE inv_crop_indices
           /\ inv_regions' =
                 IF valid THEN inv_regions
                 ELSE [inv_regions EXCEPT ![p][i + 1].disease = "Unknown",
                                          ![p][i + 1].confidence = 0]
           /\ inv_pc' = [inv_pc EXCEPT ![p] =
                           IF i + 1 < Len(inv_regions[p]) THEN "crop"
                           ELSE IF tensors # <<>> THEN "forward" ELSE "done"]
           /\ inv_idx' = [inv_idx EXCEPT ![p] = i + 1]
    /\ UNCHANGED <<sharedVars, loaded, inv_panorama, inv_raises, inv_batch_start,
                   inv_all_preds, inv_all_confs, inv_map_i, inv_disease_counts,
                   notConcVars>>

\* Lines 563-579 in invocation p: one forward pass of the shared module.
ConcForwardBatch(p) ==
    /\ inv_pc[p] = "forward"
    /\ LET batch == BatchOf(inv_crop_tensors[p], inv_batch_start[p])
       IN  /\ inv_all_preds' = [inv_all_preds EXCEPT ![p] =
                 @ \o [k \in 1..Len(batch) |-> ModelOutput(shared_model, batch[k]).pred]]
           /\ inv_all_confs' = [inv_all_confs EXCEPT ![p] =
                 @ \o [k \in 1..Len(batch) |-> ModelOutput(shared_model, batch[k]).conf]]
           /\ shared_model' = ModelAfterForward(shared_model, batch)
    /\ inv_batch_start' = [inv_batch_start EXCEPT ![p] = @ + BATCH_SIZE]
    /\ inv_pc' = [inv_pc EXCEPT ![p] =
                    IF inv_batch_start[p] + BATCH_SIZE < Len(inv_crop_tensors[p])
                    THEN "forward" ELSE "map"]
    /\ UNCHANGED <<shared_class_names, shared_transform, loaded, inv_panorama, inv_raises,
                   inv_regions, inv_idx, inv_crop_tensors, inv_crop_indices, inv_map_i,
                   inv_disease_counts, notConcVars>>

\* Lines 582-588 in invocation p: one pass of the loop over enumerate(crop_indices).
ConcMapOne(p) ==
    /\ inv_pc[p] = "map"
    /\ LET i == inv_map_i[p] + 1
           region_idx == inv_crop_indices[p][i]
           dis == LabelFrom(shared_class_names, inv_all_preds[p][i])
       IN  /\ inv_regions' = [inv_regions EXCEPT
                                 ![p][region_idx + 1].disease = dis,
                                 ![p][region_idx + 1].confidence = inv_all_confs[p][i]]
           /\ inv_disease_counts' = [inv_disease_counts EXCEPT ![p] = Counted(@, dis)]
           /\ inv_map_i' = [inv_map_i EXCEPT ![p] = i]
           /\ inv_pc' = [inv_pc EXCEPT ![p] =
                           IF i < Len(inv_crop_indices[p]) THEN "map" ELSE "done"]
    /\ UNCHANGED <<sharedVars, loaded, inv_panorama, inv_raises, inv_idx, inv_crop_tensors,
                   inv_crop_indices, inv_batch_start, inv_all_preds, inv_all_confs,
                   notConcVars>>

ConcNext ==
    \E p \in Invocations :
        \/ ConcClassifyStart(p)
        \/ ConcPrepareCrop(p)
        \/ ConcForwardBatch(p)
        \/ ConcMapOne(p)

SpecConc == ConcInit /\ [][ConcNext]_vars

\* What invocation p gives region i (1-based) when it runs alone on the loaded
\* classifier: a function of p's panorama, regions and transform failures.
AloneDisease(p, i) ==
    LET rect == CropRect(inv_regions[p][i].bbox, inv_panorama[p])
    IN  IF CropEmpty(rect) \/ (i - 1) \in inv_raises[p]
        THEN [disease |-> "Unknown", confidence |-> 0]
        ELSE LET pred == (ClassifierOutput(rect).pred + loaded[3].stats) % NumOutputs
             IN  [disease |-> IF pred < Len(loaded[1]) THEN loaded[1][pred + 1]
                              ELSE "Unknown",
                  confidence |-> ClassifierOutput(rect).conf]

\* C18: whatever the interleaving of the invocations, the label list, the transform
\* and the classifier stay as they were loaded, and what a finished invocation has
\* put on its regions is what it would have put on them running alone.
C18_SharedStateReadOnly ==
    /\ <<shared_class_names, shared_transform, shared_model>> = loaded
    /\ \A p \in Invocations :
          inv_pc[p] = "done" =>
             \A i \in 1..Len(inv_regions[p]) :
                /\ inv_regions[p][i].disease = AloneDisease(p, i).disease
                /\ inv_regions[p][i].confidence = AloneDisease(p, i).confidence

\* C18 witness: both invocations have finished, each having classified two regions;
\* their first regions have the same bbox, and their second regions got different
\* labels.
C18_Witness ==
    /\ \A p \in Invocations :
          /\ inv_pc[p] = "done"
          /\ Len(inv_regions[p]) = MaxPerInvocation
          /\ inv_all_preds[p] # <<>>
    /\ inv_regions[1][1].bbox = inv_regions[2][1].bbox
    /\ inv_regions[1][2].disease # inv_regions[2][2].disease

\* C21: deduplication receives the watershed regions followed by the contour
\* regions when the watershed pass returned fewer than 5 regions, and the watershed
\* regions alone when it returned 5 or more: the contour segmenter contributes if
\* and only if the watershed pass fell short of 5.
C21_ContourWhenFewerThanFive ==
    pc = "dedup" =>
        LET ws == segment_individual_trees_watershed(heap[preprocessed], ws_candidates)
            ct == segment_individual_trees_contour(heap[preprocessed], ct_candidates)
        IN  /\ Len(ws) <= 4 => tree_regions = ws \o ct
            /\ Len(ws) >= 5 => tree_regions = ws

\* C21 witness: the watershed pass returned exactly 5 regions on an image whose
\* contour pass would have found some, and deduplication is about to receive the 5.
C21_Witness ==
    /\ pc = "dedup"
    /\ Len(tree_regions) = 5
    /\ Len(segment_individual_trees_watershed(heap[preprocessed], ws_candidates)) = 5
    /\ segment_individual_trees_contour(heap[preprocessed], ct_candidates) # <<>>

\* The crop loop is over: crop_tensors holds all V valid crops.
CropsPrepared == pc \in {"forward", "map", "annotate", "return", "returned", "raised"}

MaxPaths == 206

SampleInit ==
    /\ DedupIdle /\ VoteIdle /\ RoundTripIdle /\ PipeIdle
    /\ OrderIdle /\ UploadIdle /\ VideoIdle /\ ConcIdle
    /\ sm_n \in 2..MaxPaths
    /\ sm_indices = <<>>
    /\ sm_pc = "call"

\* Lines 378-384: paths_to_use, as the 0-based indices into image_paths.
SamplePaths ==
    /\ sm_pc = "call"
    /\ sm_indices' = [i \in 1..Len(SampledIndices(sm_n)) |-> SampledIndices(sm_n)[i] - 1]
    /\ sm_pc' = "sampled"
    /\ UNCHANGED <<sm_n, dedupVars, voteVars, remapVars, pipeVars, orderVars, uploadVars,
                   videoVars, concVars>>

SampleNext == SamplePaths

SpecSample == SampleInit /\ [][SampleNext]_vars

\* C24 as claimed: for n > 25 paths the 25 selected indices are floor(i * n / 25),
\* i = 0..24, strictly increasing and within 0..n-1.
C24_IndicesAtFloors ==
    (sm_pc = "sampled" /\ sm_n > 25) =>
        /\ Len(sm_indices) = 25
        /\ \A i \in 0..24 : sm_indices[i + 1] = (i * sm_n) \div 25
        /\ \A i \in 1..24 : sm_indices[i] < sm_indices[i + 1]
        /\ \A i \in 1..25 : sm_indices[i] \in 0..(sm_n - 1)

\* C24 as amended: for n > 25 paths exactly 25 indices are selected; the index for
\* i = 0..24 is floor(i * n / 25), or one less than it where 25 divides i * n and
\* i > 0; the indices are strictly increasing, start at 0, lie within 0..n-1, and
\* run up to the last n / 25 + 2 paths, no two neighbours further apart than
\* n / 25 + 2.
C24_IndicesNearFloors ==
    (sm_pc = "sampled" /\ sm_n > 25) =>
        /\ Len(sm_indices) = 25
        /\ sm_indices[1] = 0
        /\ \A i \in 0..24 :
              LET q == (i * sm_n) \div 25
              IN  \/ sm_indices[i + 1] = q
                  \/ (i > 0 /\ (i * sm_n) % 25 = 0 /\ sm_indices[i + 1] = q - 1)
        /\ \A i \in 1..24 :
              /\ sm_indices[i] < sm_indices[i + 1]
              /\ (sm_indices[i + 1] - sm_indices[i]) * 25 <= sm_n + 50
        /\ \A i \in 1..25 : sm_indices[i] \in 0..(sm_n - 1)
        /\ (sm_n - 1 - sm_indices[25]) * 25 <= sm_n + 50

\* C24 witness: 205 paths, where the index for i = 15 is one below 15 * 205 / 25.
C24_Witness ==
    /\ sm_pc = "sampled"
    /\ sm_n = 205
    /\ sm_indices[16] = 122
    /\ sm_indices[25] = 196

\* C25: every image handed to the stitcher has its longest edge at most the cap,
\* 4000 px, or 2000 px when more than 15 images are being stitched.
C25_LongestEdgeCapped ==
    \A i \in 1..Len(images) :
        LET longest == IF images[i].w >= images[i].h THEN images[i].w ELSE images[i].h
        IN  longest <= (IF Len(paths_to_use) > 15 THEN 2000 ELSE 4000)

\* The stage a statement belongs to: 1 stitch, 2 downscale, 3 preprocess,
\* 4 vegetation detection, 5 watershed, 6 contour fallback, 7 deduplication, 8 remap,
\* 9 sort, 10 classification, 11 annotation, 12 the return.
StageAt(p) ==
    CASE p \in {"start", "stitch_load", "stitch_try", "stitch_none", "check"} -> 1
      [] p = "downscale" -> 2
      [] p = "preprocess" -> 3
      [] p = "vegetation" -> 4
      [] p = "watershed" -> 5
      [] p = "contour" -> 6
      [] p = "dedup" -> 7
      [] p = "remap" -> 8
      [] p = "sort" -> 9
      [] p \in {"classify", "crop", "forward", "map"} -> 10
      [] p = "annotate" -> 11
      [] p \in {"return", "returned"} -> 12

\* One step of an invocation keeps the stage or enters the next one (or leaves by an
\* exception), and writes only what its stage produces: the panorama in the stitch,
\* the segmentation image and the scale in the downscale, the preprocessed image in
\* the preprocessing, the mask in the vegetation detection (resized in the remap), the
\* regions from the watershed to the classification, the annotated image and the
\* tree list in the annotation.
StageStep ==
    pc # "raised" =>
        /\ \/ pc' = "raised"
           \/ StageAt(pc') = StageAt(pc)
           \/ StageAt(pc') = StageAt(pc) + 1
        /\ panorama' # panorama => StageAt(pc) = 1
        /\ (seg_img' # seg_img \/ scale' # scale) => StageAt(pc) = 2
        /\ preprocessed' # preprocessed => StageAt(pc) = 3
        /\ veg_mask' # veg_mask => StageAt(pc) \in {4, 8}
        /\ tree_regions' # tree_regions => StageAt(pc) \in 5..10
        /\ (crop_tensors' # crop_tensors \/ all_preds' # all_preds
              \/ forward_calls' # forward_calls) => StageAt(pc) = 10
        /\ (annotated' # annotated \/ tree_data' # tree_data) => StageAt(pc) = 11

\* C26: the stages of one invocation run in the order stitch, downscale, preprocess,
\* vegetation detection, watershed, contour fallback, deduplication, remap, sort,
\* classification, annotation: every step stays in its stage or enters the next,
\* no stage is entered again, and the output of a stage is written in that stage alone.
C26_StagesInOrder == [][StageStep]_vars

\* C26 witness: a returned invocation in which the optional stages acted too: the
\* panorama was downscaled, the contour fallback added a region and the classifier
\* ran.
C26_Witness ==
    /\ pc = "returned"
    /\ scale[1] < scale[2]
    /\ forward_calls # <<>>
    /\ Len(tree_data) >
          Len(segment_individual_trees_watershed(heap[preprocessed], ws_candidates))

\* Region new differs from region old in the fields named in changed at most.
SameExcept(old, new, changed) ==
    /\ DOMAIN new = DOMAIN old
    /\ \A f \in DOMAIN old \ changed : new[f] = old[f]

\* A step of the remap, of the classification or of the annotation changes of the
\* regions only the fields of its stage, and the annotation leaves the panorama
\* buffer as it is.
OwnFieldsStep ==
    /\ pc \in {"remap", "classify", "crop", "forward", "map", "annotate"} =>
          Len(tree_regions') = Len(tree_regions)
    /\ pc = "remap" =>
          \A i \in 1..Len(tree_regions) :
              SameExcept(tree_regions[i], tree_regions'[i], {"bbox", "centroid", "area"})
    /\ pc \in {"classify", "crop", "forward", "map"} =>
          \A i \in 1..Len(tree_regions) :
              SameExcept(tree_regions[i], tree_regions'[i], {"disease", "confidence"})
    /\ pc = "annotate" =>
          /\ tree_regions' = tree_regions
          /\ panorama' = panorama
          /\ heap'[panorama] = heap[panorama]
          /\ annotated' # panorama

\* C27: the remap changes only bbox, centroid and area of a region, the classification
\* only disease and confidence, and the annotation changes neither a region nor the
\* panorama it is given.
C27_StagesChangeOwnFields == [][OwnFieldsStep]_vars

\* C27 witness: a returned result whose regions were remapped and classified: a
\* labelled region carries the aspect ratio it was created with, which is not that
\* of its remapped bbox.
C27_Witness ==
    /\ pc = "returned"
    /\ scale[1] < scale[2]
    /\ \E i \in 1..Len(tree_regions) :
          /\ tree_regions[i].disease \notin {None, "Unknown"}
          /\ tree_regions[i].aspect_ratio #
                AspectRatio(tree_regions[i].bbox[3], tree_regions[i].bbox[4])
    /\ heap[annotated].drawn # <<>>
    /\ heap[panorama].drawn = <<>>

RECURSIVE SumOver(_, _)
\* sum(counts[d] for d in labels)
SumOver(counts, labels) ==
    IF labels = {} THEN 0
    ELSE LET d == CHOOSE x \in labels : TRUE
         IN  counts[d] + SumOver(counts, labels \ {d})

\* sum(disease_counts.values())
CountedTrees == SumOver(disease_counts, DOMAIN disease_counts)

BboxInside(b, width, height) ==
    /\ b[1] >= 0 /\ b[2] >= 0
    /\ b[3] >= 1 /\ b[4] >= 1
    /\ b[1] + b[3] <= width /\ b[2] + b[4] <= height

\* The point <<x, y>> is a pixel of an image of width by height pixels.
PixelInside(c, width, height) ==
    /\ c[1] >= 0 /\ c[1] < width
    /\ c[2] >= 0 /\ c[2] < height

\* C29: once the regions of a downscaled working image are remapped to full
\* resolution, the bbox of every region lies inside the panorama with width and
\* height of at least 1, and its centroid is a pixel of the panorama.
C29_RemappedInsidePanorama ==
    (Sorted /\ scale[1] < scale[2]) =>
        \A i \in 1..Len(tree_regions) :
            /\ BboxInside(tree_regions[i].bbox, heap[panorama].w, heap[panorama].h)
            /\ PixelInside(tree_regions[i].centroid, heap[panorama].w, heap[panorama].h)

\* C29 witness: a returned result for a drone frame whose downscaled image had a
\* crown in its bottom right corner: after the remap its bbox ends within two pixels
\* of the right and the bottom border of the panorama, where the products truncate.
C29_Witness ==
    /\ pc = "returned"
    /\ scale = <<SEG_MAX_EDGE, DroneImage.w>>
    /\ heap[panorama].w = DroneImage.w
    /\ \E i \in 1..Len(tree_regions) :
          LET b == tree_regions[i].bbox
          IN  /\ b[1] + b[3] \in DroneImage.w - 2 .. DroneImage.w
              /\ b[2] + b[4] \in DroneImage.h - 2 .. DroneImage.h
              /\ b[1] + b[3] < DroneImage.w

\* The IoU of two boxes is above the threshold of the pipeline, 0.35.
IouAboveThreshold(b1, b2) ==
    LET v == iou(b1, b2)
    IN  100 * v[1] > PipelineOverlapThreshold * v[2]

\* No two distinct regions of the list have boxes with an IoU above the threshold.
PairwiseWithinThreshold(regions) ==
    \A i, j \in 1..Len(regions) :
        i # j => ~IouAboveThreshold(regions[i].bbox, regions[j].bbox)

\* C30 as stated: in the result, any two distinct trees have boxes with IoU <= 0.35,
\* also when the regions were remapped to full resolution after the deduplication.
C30_ResultWithinThreshold ==
    pc = "returned" => PairwiseWithinThreshold(tree_regions)

\* C30 as amended: any two distinct regions have boxes with IoU <= 0.35 in the
\* coordinates of the working image when the deduplication has run, and in the
\* result when no remap took place.
C30_WithinThresholdAtWorkingScale ==
    /\ pc = "remap" => PairwiseWithinThreshold(tree_regions)
    /\ (Sorted /\ scale[1] = scale[2]) => PairwiseWithinThreshold(tree_regions)

\* C30 witness: a returned result without remap in which the deduplication dropped a
\* detection and kept two neighbouring trees whose boxes overlap with an IoU above 0.3.
C30_Witness ==
    /\ pc = "returned"
    /\ scale[1] = scale[2]
    /\ ws_candidates = NeighbourScene
    /\ Len(tree_regions) < Len(ws_candidates)
    /\ \E i, j \in 1..Len(tree_regions) :
          LET v == iou(tree_regions[i].bbox, tree_regions[j].bbox)
          IN  i # j /\ 100 * v[1] > 30 * v[2]

====
